---- MODULE Spec2Model ----
(***************************************************************************)
(* Model of the Path class (neptune-3d/path): an ordered list of SVG path  *)
(* commands with a declared design-space width and height, the builder     *)
(* operations that append to it, the envelope and pen-position queries,    *)
(* and the coordinate transforms that remap the whole list.                *)
(*                                                                         *)
(* Numbers.  The program computes on IEEE doubles.  The model computes on  *)
(* exact rationals extended with the three special values the program can  *)
(* produce: a number is a record [n, d]; d > 0 is the reduced fraction     *)
(* n/d, and d = 0 is Infinity (n = 1), -Infinity (n = -1) or NaN (n = 0).  *)
(* Rounding and the sign of zero are not modelled.                         *)
(***************************************************************************)
EXTENDS Integers, Sequences, FiniteSets, TLC

VARIABLES width, height, commands, last, nCalls, heap

vars == <<width, height, commands, last, nCalls, heap>>

----------------------------------------------------------------------------
(* Bounds of the exploration *)

\* Calls made on the Path after its construction.
MaxCalls == 2

----------------------------------------------------------------------------
(* Numbers *)

Abs(i) == IF i < 0 THEN -i ELSE i

Sgn(i) == IF i < 0 THEN -1 ELSE IF i > 0 THEN 1 ELSE 0

RECURSIVE GCD(_, _)
GCD(a, b) == IF b = 0 THEN a ELSE GCD(b, a % b)

Norm(n, d) ==
  IF d = 0 THEN [n |-> Sgn(n), d |-> 0]
  ELSE LET g == GCD(Abs(n), Abs(d))
       IN  [n |-> (Sgn(d) * n) \div g, d |-> Abs(d) \div g]

Num(i) == [n |-> i, d |-> 1]

Frac(i, j) == Norm(i, j)

Infinity == [n |-> 1, d |-> 0]

NegInfinity == [n |-> -1, d |-> 0]

NaN == [n |-> 0, d |-> 0]

\* An omitted argument.
Undefined == [n |-> 0, d |-> -1]

IsNaN(a) == a.d = 0 /\ a.n = 0

IsFinite(a) == a.d > 0

Neg(a) == [n |-> -a.n, d |-> a.d]

\* Sums, products and comparisons cancel common factors before multiplying,
\* which keeps the intermediate integers small.
Add(a, b) ==
  IF a.d = 0 /\ b.d = 0
  THEN (IF a.n = b.n THEN a ELSE NaN)
  ELSE IF a.d = 0 THEN a
  ELSE IF b.d = 0 THEN b
  ELSE LET g == GCD(a.d, b.d)
       IN  Norm(a.n * (b.d \div g) + b.n * (a.d \div g), (a.d \div g) * b.d)

Sub(a, b) == Add(a, Neg(b))

Mul(a, b) ==
  IF a.d = 0 \/ b.d = 0 THEN Norm(Sgn(a.n) * Sgn(b.n), 0)
  ELSE LET g1 == GCD(Abs(a.n), b.d)
           g2 == GCD(Abs(b.n), a.d)
       IN  Norm((a.n \div g1) * (b.n \div g2), (a.d \div g2) * (b.d \div g1))

\* 1 / b
Inv(b) ==
  IF b.n = 0 THEN (IF b.d = 0 THEN NaN ELSE Infinity)
  ELSE [n |-> Sgn(b.n) * b.d, d |-> Abs(b.n)]

Div(a, b) ==
  IF b.d = 0 /\ a.d = 0 THEN NaN ELSE Mul(a, Inv(b))

Lt(a, b) ==
  /\ ~IsNaN(a)
  /\ ~IsNaN(b)
  /\ IF a.d = 0 \/ b.d = 0
     THEN (IF a.d = 0 /\ b.d = 0 THEN a.n < b.n
           ELSE IF a.d = 0 THEN a.n < 0 ELSE b.n > 0)
     ELSE LET g == GCD(a.d, b.d)
          IN  a.n * (b.d \div g) < b.n * (a.d \div g)

Gt(a, b) == Lt(b, a)

Leq(a, b) == ~IsNaN(a) /\ ~IsNaN(b) /\ ~Lt(b, a)

MathMin(a, b) ==
  IF IsNaN(a) \/ IsNaN(b) THEN NaN ELSE IF Lt(b, a) THEN b ELSE a

MathMax(a, b) ==
  IF IsNaN(a) \/ IsNaN(b) THEN NaN ELSE IF Lt(a, b) THEN b ELSE a

\* arg ?? dflt, and a default parameter value
OrElse(arg, dflt) == IF arg = Undefined THEN dflt ELSE arg

Zero == Num(0)

Two == Num(2)

----------------------------------------------------------------------------
(* Commands *)

CmdM(x, y) == [type |-> "M", x |-> x, y |-> y]

CmdL(x, y) == [type |-> "L", x |-> x, y |-> y]

CmdH(x) == [type |-> "H", x |-> x]

CmdV(y) == [type |-> "V", y |-> y]

CmdQ(x1, y1, x, y) == [type |-> "Q", x1 |-> x1, y1 |-> y1, x |-> x, y |-> y]

CmdC(x1, y1, x2, y2, x, y) ==
  [type |-> "C", x1 |-> x1, y1 |-> y1, x2 |-> x2, y2 |-> y2, x |-> x, y |-> y]

CmdT(x, y) == [type |-> "T", x |-> x, y |-> y]

CmdS(x2, y2, x, y) == [type |-> "S", x2 |-> x2, y2 |-> y2, x |-> x, y |-> y]

CmdZ == [type |-> "Z"]

Point(x, y) == [x |-> x, y |-> y]

Has(cmd, field) == field \in DOMAIN cmd

----------------------------------------------------------------------------
(* Envelope *)

\* The x values (resp. y values) one command contributes, in the order the
\* loop body pushes them.
XsOf(cmd) ==
  (IF Has(cmd, "x") THEN <<cmd.x>> ELSE <<>>)
    \o (IF Has(cmd, "x1") THEN <<cmd.x1>> ELSE <<>>)
    \o (IF Has(cmd, "x2") THEN <<cmd.x2>> ELSE <<>>)

YsOf(cmd) ==
  (IF Has(cmd, "y") THEN <<cmd.y>> ELSE <<>>)
    \o (IF Has(cmd, "y1") THEN <<cmd.y1>> ELSE <<>>)
    \o (IF Has(cmd, "y2") THEN <<cmd.y2>> ELSE <<>>)

RECURSIVE RunMin(_, _)
RunMin(vals, acc) ==
  IF vals = <<>> THEN acc
  ELSE RunMin(Tail(vals), IF Lt(Head(vals), acc) THEN Head(vals) ELSE acc)

RECURSIVE RunMax(_, _)
RunMax(vals, acc) ==
  IF vals = <<>> THEN acc
  ELSE RunMax(Tail(vals), IF Gt(Head(vals), acc) THEN Head(vals) ELSE acc)

\* F applied to the value of x, which is computed once.
Apply1(F(_), x) == CHOOSE r \in {F(y) : y \in {x}} : TRUE

\* The body of the loop: the running box b after one more command.
BoundsStep(b, cmd) ==
  [minX |-> RunMin(XsOf(cmd), b.minX),
   minY |-> RunMin(YsOf(cmd), b.minY),
   maxX |-> RunMax(XsOf(cmd), b.maxX),
   maxY |-> RunMax(YsOf(cmd), b.maxY)]

\* The loop over the commands lo..hi of cmds, from the running box b.  The
\* range is split in two so that the evaluation does not nest once per
\* command: the box after the first half is computed, then handed on.
RECURSIVE BoundsLoop(_, _, _, _)
BoundsLoop(cmds, lo, hi, b) ==
  IF lo > hi THEN b
  ELSE IF lo = hi THEN BoundsStep(b, cmds[lo])
  ELSE CHOOSE r \in {BoundsLoop(cmds, (lo + hi) \div 2 + 1, hi, half) :
                       half \in {BoundsLoop(cmds, lo, (lo + hi) \div 2, b)}} : TRUE

GetBounds(cmds) ==
  Apply1(LAMBDA list :
           BoundsLoop(list, 1, Len(list),
                      [minX |-> Infinity, minY |-> Infinity,
                       maxX |-> NegInfinity, maxY |-> NegInfinity]),
         cmds)

\* GetCenter returning the envelope's corner instead of its midpoint.
GetCenterCorner(cmds) ==
  LET bounds == GetBounds(cmds)
  IN  Point(bounds.minX, bounds.minY)

GetCenter(cmds) ==
  LET bounds == GetBounds(cmds)
  IN  Point(Div(Add(bounds.minX, bounds.maxX), Two),
            Div(Add(bounds.minY, bounds.maxY), Two))

----------------------------------------------------------------------------
(* Pen position *)

\* PenStep with a Move that does not record the subpath start.
PenStepNoSubpathStart(st, cmd) ==
  CASE cmd.type \in {"M", "L", "T", "Q", "C", "S"} ->
         [st EXCEPT !.x = cmd.x, !.y = cmd.y]
    [] cmd.type = "H" -> [st EXCEPT !.x = cmd.x]
    [] cmd.type = "V" -> [st EXCEPT !.y = cmd.y]
    [] cmd.type = "Z" ->
         [st EXCEPT !.x = st.subpathStartX, !.y = st.subpathStartY]

PenStep(st, cmd) ==
  CASE cmd.type = "M" ->
         [x |-> cmd.x, y |-> cmd.y,
          subpathStartX |-> cmd.x, subpathStartY |-> cmd.y]
    [] cmd.type \in {"L", "T", "Q", "C", "S"} ->
         [st EXCEPT !.x = cmd.x, !.y = cmd.y]
    [] cmd.type = "H" -> [st EXCEPT !.x = cmd.x]
    [] cmd.type = "V" -> [st EXCEPT !.y = cmd.y]
    [] cmd.type = "Z" ->
         [st EXCEPT !.x = st.subpathStartX, !.y = st.subpathStartY]

\* The loop over the commands lo..hi of cmds, from the pen state st, split in
\* two like BoundsLoop.
RECURSIVE PenLoop(_, _, _, _)
PenLoop(cmds, lo, hi, st) ==
  IF lo > hi THEN st
  ELSE IF lo = hi THEN PenStep(st, cmds[lo])
  ELSE CHOOSE r \in {PenLoop(cmds, (lo + hi) \div 2 + 1, hi, half) :
                       half \in {PenLoop(cmds, lo, (lo + hi) \div 2, st)}} : TRUE

GetCurrentPoint(cmds) ==
  IF Len(cmds) = 0 THEN Point(Zero, Zero)
  ELSE LET st == Apply1(LAMBDA list :
                          PenLoop(list, 1, Len(list),
                                  [x |-> Zero, y |-> Zero,
                                   subpathStartX |-> Zero,
                                   subpathStartY |-> Zero]),
                        cmds)
       IN  Point(st.x, st.y)

----------------------------------------------------------------------------
(* Transform engine *)

\* The coordinate functions the transforms pass to _mapCoords.  A function
\* is a record naming the closure and the values it captured.
NoFn == [kind |-> "none"]

TranslateFn(dx, dy) == [kind |-> "translate", dx |-> dx, dy |-> dy]

ScaleFn(sx, sy, cx, cy) ==
  [kind |-> "scale", sx |-> sx, sy |-> sy, cx |-> cx, cy |-> cy]

RotateFn(cos, sin, cx, cy) ==
  [kind |-> "rotate", cos |-> cos, sin |-> sin, cx |-> cx, cy |-> cy]

FlipXFn(w) == [kind |-> "flipX", width |-> w]

FlipYFn(h) == [kind |-> "flipY", height |-> h]

ApplyFn(fn, x, y) ==
  CASE fn.kind = "translate" -> Point(Add(x, fn.dx), Add(y, fn.dy))
    [] fn.kind = "scale" ->
         LET dx == Sub(x, fn.cx)
             dy == Sub(y, fn.cy)
         IN  Point(Add(Mul(dx, fn.sx), fn.cx), Add(Mul(dy, fn.sy), fn.cy))
    [] fn.kind = "rotate" ->
         LET dx == Sub(x, fn.cx)
             dy == Sub(y, fn.cy)
             rx == Sub(Mul(dx, fn.cos), Mul(dy, fn.sin))
             ry == Add(Mul(dx, fn.sin), Mul(dy, fn.cos))
         IN  Point(Add(rx, fn.cx), Add(ry, fn.cy))
    [] fn.kind = "flipX" -> Point(Sub(fn.width, x), y)
    [] fn.kind = "flipY" -> Point(x, Sub(fn.height, y))

\* MapCmd that maps end points only and copies control points as they are.
MapCmdEndPointOnly(cmd, fn) ==
  CASE cmd.type \in {"M", "L", "T"} ->
         LET p == ApplyFn(fn, cmd.x, cmd.y)
         IN  [type |-> cmd.type, x |-> p.x, y |-> p.y]
    [] cmd.type = "H" ->
         LET p == ApplyFn(fn, cmd.x, Zero) IN CmdH(p.x)
    [] cmd.type = "V" ->
         LET p == ApplyFn(fn, Zero, cmd.y) IN CmdV(p.y)
    [] cmd.type \in {"Q", "C", "S"} ->
         LET p == ApplyFn(fn, cmd.x, cmd.y)
         IN  [cmd EXCEPT !.x = p.x, !.y = p.y]
    [] cmd.type = "Z" -> CmdZ

\* _mapCoords that leaves HorizontalLine and VerticalLine commands as they
\* are.
MapCmdLinesKept(cmd, fn) ==
  CASE cmd.type \in {"M", "L", "T"} ->
         LET p == ApplyFn(fn, cmd.x, cmd.y)
         IN  [type |-> cmd.type, x |-> p.x, y |-> p.y]
    [] cmd.type \in {"H", "V"} -> cmd
    [] cmd.type = "Q" ->
         LET c == ApplyFn(fn, cmd.x1, cmd.y1)
             p == ApplyFn(fn, cmd.x, cmd.y)
         IN  CmdQ(c.x, c.y, p.x, p.y)
    [] cmd.type = "C" ->
         LET c1 == ApplyFn(fn, cmd.x1, cmd.y1)
             c2 == ApplyFn(fn, cmd.x2, cmd.y2)
             p == ApplyFn(fn, cmd.x, cmd.y)
         IN  CmdC(c1.x, c1.y, c2.x, c2.y, p.x, p.y)
    [] cmd.type = "S" ->
         LET c2 == ApplyFn(fn, cmd.x2, cmd.y2)
             p == ApplyFn(fn, cmd.x, cmd.y)
         IN  CmdS(c2.x, c2.y, p.x, p.y)
    [] cmd.type = "Z" -> CmdZ

MapCmd(cmd, fn) ==
  CASE cmd.type \in {"M", "L", "T"} ->
         LET p == ApplyFn(fn, cmd.x, cmd.y)
         IN  [type |-> cmd.type, x |-> p.x, y |-> p.y]
    [] cmd.type = "H" ->
         LET p == ApplyFn(fn, cmd.x, Zero) IN CmdH(p.x)
    [] cmd.type = "V" ->
         LET p == ApplyFn(fn, Zero, cmd.y) IN CmdV(p.y)
    [] cmd.type = "Q" ->
         LET c == ApplyFn(fn, cmd.x1, cmd.y1)
             p == ApplyFn(fn, cmd.x, cmd.y)
         IN  CmdQ(c.x, c.y, p.x, p.y)
    [] cmd.type = "C" ->
         LET c1 == ApplyFn(fn, cmd.x1, cmd.y1)
             c2 == ApplyFn(fn, cmd.x2, cmd.y2)
             p == ApplyFn(fn, cmd.x, cmd.y)
         IN  CmdC(c1.x, c1.y, c2.x, c2.y, p.x, p.y)
    [] cmd.type = "S" ->
         LET c2 == ApplyFn(fn, cmd.x2, cmd.y2)
             p == ApplyFn(fn, cmd.x, cmd.y)
         IN  CmdS(c2.x, c2.y, p.x, p.y)
    [] cmd.type = "Z" -> CmdZ

MapCoords(cmds, fn) == [i \in 1..Len(cmds) |-> MapCmd(cmds[i], fn)]

\* Each transform below yields the function it hands to _mapCoords (NoFn when
\* it returns before reaching it); the action applies it.

ScaleCall(cmds, sx, syArg, cxArg, cyArg) ==
  LET sy == OrElse(syArg, sx)
      center == GetCenter(cmds)
      cx == OrElse(cxArg, center.x)
      cy == OrElse(cyArg, center.y)
  IN  ScaleFn(sx, sy, cx, cy)

\* TranslateCall that adds dx on both axes.
TranslateCallSameOffset(dx, dy) == TranslateFn(dx, dx)

TranslateCall(dx, dy) == TranslateFn(dx, dy)

\* Math.cos and Math.sin, on the quarter turns (angle = q * pi/2), where the
\* mathematical values are exact.
Cos(q) == Num(CASE q % 4 = 0 -> 1 [] q % 4 = 1 -> 0 [] q % 4 = 2 -> -1 [] q % 4 = 3 -> 0)

Sin(q) == Num(CASE q % 4 = 0 -> 0 [] q % 4 = 1 -> 1 [] q % 4 = 2 -> 0 [] q % 4 = 3 -> -1)

RotateCall(q, cxArg, cyArg) ==
  RotateFn(Cos(q), Sin(q), OrElse(cxArg, Zero), OrElse(cyArg, Zero))

\* FlipXCall whose default is the constructor's default width, not this.width.
FlipXCallFixedDefault(w, widthArg) == FlipXFn(OrElse(widthArg, Num(24)))

FlipXCall(w, widthArg) == FlipXFn(OrElse(widthArg, w))

FlipYCall(h, heightArg) == FlipYFn(OrElse(heightArg, h))

\* CenterCall that aligns the envelope's corner with the target box's corner.
CenterCallCorner(cmds, w, h, minXArg, minYArg, maxXArg, maxYArg) ==
  LET minX == OrElse(minXArg, Zero)
      minY == OrElse(minYArg, Zero)
      bounds == GetBounds(cmds)
  IN  TranslateFn(Sub(minX, bounds.minX), Sub(minY, bounds.minY))

CenterCall(cmds, w, h, minXArg, minYArg, maxXArg, maxYArg) ==
  LET minX == OrElse(minXArg, Zero)
      minY == OrElse(minYArg, Zero)
      maxX == OrElse(maxXArg, w)
      maxY == OrElse(maxYArg, h)
      bounds == GetBounds(cmds)
      shapeWidth == Sub(bounds.maxX, bounds.minX)
      shapeHeight == Sub(bounds.maxY, bounds.minY)
      targetWidth == Sub(maxX, minX)
      targetHeight == Sub(maxY, minY)
      dx == Sub(Add(minX, Div(Sub(targetWidth, shapeWidth), Two)), bounds.minX)
      dy == Sub(Add(minY, Div(Sub(targetHeight, shapeHeight), Two)), bounds.minY)
  IN  TranslateCall(dx, dy)

\* FitCall whose guard needs both extents to be zero.
FitCallGuardBoth(cmds, w, h, targetWidthArg, targetHeightArg, preserveAspectArg) ==
  LET targetWidth == OrElse(targetWidthArg, w)
      targetHeight == OrElse(targetHeightArg, h)
      preserveAspect == (preserveAspectArg # "false")
      cmdBounds == GetBounds(cmds)
      shapeWidth == Sub(cmdBounds.maxX, cmdBounds.minX)
      shapeHeight == Sub(cmdBounds.maxY, cmdBounds.minY)
      sx == Div(targetWidth, shapeWidth)
      sy == Div(targetHeight, shapeHeight)
      sm == MathMin(sx, sy)
  IN  IF shapeWidth = Zero /\ shapeHeight = Zero THEN NoFn
      ELSE IF preserveAspect THEN ScaleFn(sm, sm, GetCenter(cmds).x, GetCenter(cmds).y)
      ELSE ScaleFn(sx, sy, GetCenter(cmds).x, GetCenter(cmds).y)

\* FitCall that takes the larger of the two factors ("cover").
FitCallCover(cmds, w, h, targetWidthArg, targetHeightArg, preserveAspectArg) ==
  LET targetWidth == OrElse(targetWidthArg, w)
      targetHeight == OrElse(targetHeightArg, h)
      preserveAspect == (preserveAspectArg # "false")
      cmdBounds == GetBounds(cmds)
      shapeWidth == Sub(cmdBounds.maxX, cmdBounds.minX)
      shapeHeight == Sub(cmdBounds.maxY, cmdBounds.minY)
      sx == Div(targetWidth, shapeWidth)
      sy == Div(targetHeight, shapeHeight)
      sm == IF Lt(sx, sy) THEN sy ELSE sx
  IN  IF shapeWidth = Zero \/ shapeHeight = Zero THEN NoFn
      ELSE IF preserveAspect THEN ScaleFn(sm, sm, GetCenter(cmds).x, GetCenter(cmds).y)
      ELSE ScaleFn(sx, sy, GetCenter(cmds).x, GetCenter(cmds).y)

\* FitCall that takes the declared size for the size of the shape.
FitCallDeclaredSize(cmds, w, h, targetWidthArg, targetHeightArg, preserveAspectArg) ==
  LET targetWidth == OrElse(targetWidthArg, w)
      targetHeight == OrElse(targetHeightArg, h)
      preserveAspect == (preserveAspectArg # "false")
      cmdBounds == GetBounds(cmds)
      shapeWidth == Sub(cmdBounds.maxX, cmdBounds.minX)
      shapeHeight == Sub(cmdBounds.maxY, cmdBounds.minY)
      sx == Div(targetWidth, w)
      sy == Div(targetHeight, h)
      sm == MathMin(sx, sy)
  IN  IF shapeWidth = Zero \/ shapeHeight = Zero THEN NoFn
      ELSE IF preserveAspect THEN ScaleFn(sm, sm, GetCenter(cmds).x, GetCenter(cmds).y)
      ELSE ScaleFn(sx, sy, GetCenter(cmds).x, GetCenter(cmds).y)

FitCall(cmds, w, h, targetWidthArg, targetHeightArg, preserveAspectArg) ==
  LET targetWidth == OrElse(targetWidthArg, w)
      targetHeight == OrElse(targetHeightArg, h)
      preserveAspect == (preserveAspectArg # "false")
      cmdBounds == GetBounds(cmds)
      shapeWidth == Sub(cmdBounds.maxX, cmdBounds.minX)
      shapeHeight == Sub(cmdBounds.maxY, cmdBounds.minY)
      sx == Div(targetWidth, shapeWidth)
      sy == Div(targetHeight, shapeHeight)
      smin == MathMin(sx, sy)
  IN  IF shapeWidth = Zero \/ shapeHeight = Zero THEN NoFn
      ELSE IF preserveAspect THEN ScaleCall(cmds, smin, smin, Undefined, Undefined)
      ELSE ScaleCall(cmds, sx, sy, Undefined, Undefined)

Remap(cmds, fn) == IF fn = NoFn THEN cmds ELSE MapCoords(cmds, fn)

----------------------------------------------------------------------------
(* Arc conversion *)

(***************************************************************************)
(* arcToCubic takes square roots, arc cosines, cosines, sines and a        *)
(* tangent.  The model computes them exactly where the result is rational: *)
(* roots of squares of rationals, and angles, carried in whole degrees,    *)
(* that are multiples of a quarter turn.  The one irrational value left,   *)
(* tan(22.5 deg) = sqrt(2) - 1, is replaced by the convergent 169/408 of   *)
(* its continued fraction.  ArcExact says of an arc that its conversion    *)
(* stays within these values.                                              *)
(***************************************************************************)

\* a === b on numbers: NaN equals nothing.
StrictEq(a, b) == ~IsNaN(a) /\ ~IsNaN(b) /\ a = b

AbsNum(a) == [n |-> Abs(a.n), d |-> a.d]

RECURSIVE RootSearch(_, _, _)
\* The k in lo..hi with k * k = i, or -1 when there is none.
RootSearch(i, lo, hi) ==
  IF lo > hi THEN -1
  ELSE LET mid == (lo + hi) \div 2
       IN  IF mid * mid = i THEN mid
           ELSE IF mid * mid < i THEN RootSearch(i, mid + 1, hi)
           ELSE RootSearch(i, lo, mid - 1)

IntRoot(i) == IF i < 0 THEN -1 ELSE RootSearch(i, 0, IF i < 46340 THEN i ELSE 46340)

IsSquare(a) == IsFinite(a) /\ IntRoot(a.n) # -1 /\ IntRoot(a.d) # -1

\* Math.sqrt, on the squares of rationals.
Sqrt(a) == CASE IsSquare(a) -> Frac(IntRoot(a.n), IntRoot(a.d))

\* Math.acos in degrees, on the cosines of the quarter turns.
Acos(dot) ==
  CASE dot = Num(1) -> 0
    [] dot = Zero -> 90
    [] dot = Num(-1) -> 180

\* Math.cos and Math.sin of an angle in degrees that is a multiple of 90.
CosDeg(deg) == CASE deg % 90 = 0 -> Cos(deg \div 90)

SinDeg(deg) == CASE deg % 90 = 0 -> Sin(deg \div 90)

\* Math.tan of an eighth of a quarter turn taken deg / 90 times over, on
\* deg = 90 and deg = -90, the only fourths of a segment's angle that occur.
TanQuarterOf(deg) ==
  CASE deg = 90 -> Frac(169, 408)
    [] deg = -90 -> Frac(-169, 408)

\* The arguments of one arcToCubic call.
Arc(x0, y0, rx, ry, xAxisRotation, largeArcFlag, sweepFlag, x, y) ==
  [x0 |-> x0, y0 |-> y0, rx |-> rx, ry |-> ry,
   xAxisRotation |-> xAxisRotation, largeArcFlag |-> largeArcFlag,
   sweepFlag |-> sweepFlag, x |-> x, y |-> y]

ClampDot(dot) ==
  IF Gt(dot, Num(1)) THEN Num(1)
  ELSE IF Lt(dot, Num(-1)) THEN Num(-1)
  ELSE dot

AxisUnit(vx, vy) ==
  \/ vx \in {Num(1), Num(-1)} /\ vy = Zero
  \/ vx = Zero /\ vy \in {Num(1), Num(-1)}

\* The signed angle from (ux, uy) to (vx, vy), in degrees.
UnitAngle(ux, uy, vx, vy) ==
  LET sign == IF Lt(Sub(Mul(ux, vy), Mul(uy, vx)), Zero) THEN -1 ELSE 1
      dot == ClampDot(Add(Mul(ux, vx), Mul(uy, vy)))
  IN  sign * Acos(dot)

\* The arc is outside the values the model computes exactly.
Inexact == [exact |-> FALSE]

\* Step 1: the rotation and the start point in the space of the ellipse.
ArcEllipseSpace(A) ==
  LET phi == A.xAxisRotation.n
      cosPhi == CosDeg(phi)
      sinPhi == SinDeg(phi)
      dx2 == Div(Sub(A.x0, A.x), Two)
      dy2 == Div(Sub(A.y0, A.y), Two)
  IN  IF \E f \in DOMAIN A : ~IsFinite(A[f]) THEN Inexact
      ELSE IF A.xAxisRotation.d # 1 \/ phi % 90 # 0 THEN Inexact
      ELSE [exact |-> TRUE, arc |-> A, cosPhi |-> cosPhi, sinPhi |-> sinPhi,
            x1p |-> Add(Mul(cosPhi, dx2), Mul(sinPhi, dy2)),
            y1p |-> Add(Mul(Neg(sinPhi), dx2), Mul(cosPhi, dy2))]

\* The radii, made positive and enlarged when they are out of range.
ArcRadii(E) ==
  LET absRx == AbsNum(E.arc.rx)
      absRy == AbsNum(E.arc.ry)
      lambda == Add(Div(Mul(E.x1p, E.x1p), Mul(absRx, absRx)),
                    Div(Mul(E.y1p, E.y1p), Mul(absRy, absRy)))
      scale == IF Gt(lambda, Num(1)) THEN Sqrt(lambda) ELSE Num(1)
  IN  IF ~E.exact THEN Inexact
      ELSE IF Gt(lambda, Num(1)) /\ ~IsSquare(lambda) THEN Inexact
      ELSE E @@ [rx |-> Mul(absRx, scale), ry |-> Mul(absRy, scale)]

\* Step 2: the centre in the space of the ellipse.
ArcCenterP(R) ==
  LET rxSq == Mul(R.rx, R.rx)
      rySq == Mul(R.ry, R.ry)
      x1pSq == Mul(R.x1p, R.x1p)
      y1pSq == Mul(R.y1p, R.y1p)
      radicant0 == Sub(Sub(Mul(rxSq, rySq), Mul(rxSq, y1pSq)), Mul(rySq, x1pSq))
      radicant1 == IF Lt(radicant0, Zero) THEN Zero ELSE radicant0
      radicant2 == Div(radicant1, Add(Mul(rxSq, y1pSq), Mul(rySq, x1pSq)))
      radicant == Mul(Sqrt(radicant2),
                      IF StrictEq(R.arc.largeArcFlag, R.arc.sweepFlag)
                        THEN Num(-1) ELSE Num(1))
  IN  IF ~R.exact THEN Inexact
      ELSE IF ~IsSquare(radicant2) THEN Inexact
      ELSE R @@ [cxp |-> Div(Mul(Mul(radicant, R.rx), R.y1p), R.ry),
                 cyp |-> Div(Mul(Mul(radicant, Neg(R.ry)), R.x1p), R.rx)]

\* Steps 3 and 4: the centre in the original coordinates and the unit
\* vectors to the two end points.
ArcVectors(C) ==
  IF ~C.exact THEN Inexact
  ELSE C @@
       [cx |-> Add(Sub(Mul(C.cosPhi, C.cxp), Mul(C.sinPhi, C.cyp)),
                   Div(Add(C.arc.x0, C.arc.x), Two)),
        cy |-> Add(Add(Mul(C.sinPhi, C.cxp), Mul(C.cosPhi, C.cyp)),
                   Div(Add(C.arc.y0, C.arc.y), Two)),
        v1x |-> Div(Sub(C.x1p, C.cxp), C.rx),
        v1y |-> Div(Sub(C.y1p, C.cyp), C.ry),
        v2x |-> Div(Sub(Neg(C.x1p), C.cxp), C.rx),
        v2y |-> Div(Sub(Neg(C.y1p), C.cyp), C.ry)]

\* Step 4 and the segment splitting without the correction of the swept
\* angle by the sweep flag.
ArcAnglesUnswept(V) ==
  LET theta1 == UnitAngle(Num(1), Zero, V.v1x, V.v1y)
      deltaTheta == UnitAngle(V.v1x, V.v1y, V.v2x, V.v2y)
      ceil == (Abs(deltaTheta) + 89) \div 90
      segments == IF ceil > 1 THEN ceil ELSE 1
  IN  IF ~V.exact THEN Inexact
      ELSE IF ~AxisUnit(V.v1x, V.v1y) \/ ~AxisUnit(V.v2x, V.v2y) THEN Inexact
      ELSE IF deltaTheta % segments # 0 THEN Inexact
      ELSE V @@ [theta1 |-> theta1, deltaTheta |-> deltaTheta,
                 segments |-> segments, dTheta |-> deltaTheta \div segments]

\* Step 4 and the segment splitting: the start angle, the swept angle, the
\* number of segments and the angle of each, in degrees.
ArcAngles(V) ==
  LET theta1 == UnitAngle(Num(1), Zero, V.v1x, V.v1y)
      deltaTheta0 == UnitAngle(V.v1x, V.v1y, V.v2x, V.v2y)
      deltaTheta ==
        IF StrictEq(V.arc.sweepFlag, Zero) /\ deltaTheta0 > 0
          THEN deltaTheta0 - 360
        ELSE IF StrictEq(V.arc.sweepFlag, Num(1)) /\ deltaTheta0 < 0
          THEN deltaTheta0 + 360
        ELSE deltaTheta0
      ceil == (Abs(deltaTheta) + 89) \div 90
      segments == IF ceil > 1 THEN ceil ELSE 1
  IN  IF ~V.exact THEN Inexact
      ELSE IF ~AxisUnit(V.v1x, V.v1y) \/ ~AxisUnit(V.v2x, V.v2y) THEN Inexact
      ELSE IF deltaTheta % segments # 0 THEN Inexact
      ELSE V @@ [theta1 |-> theta1, deltaTheta |-> deltaTheta,
                 segments |-> segments, dTheta |-> deltaTheta \div segments]

\* Steps 1 to 4 of an arc that is not degenerate.
ArcPlan(A) ==
  Apply1(ArcAngles,
         Apply1(ArcVectors,
                Apply1(ArcCenterP, Apply1(ArcRadii, ArcEllipseSpace(A)))))

\* The i-th curve of the loop over the segments of a plan, i counted from 1.
ArcSegment(P, i) ==
  LET t1 == P.theta1 + (i - 1) * P.dTheta
      t2 == t1 + P.dTheta
      rx == P.rx
      ry == P.ry
      cosPhi == P.cosPhi
      sinPhi == P.sinPhi
      cosT1 == CosDeg(t1)
      sinT1 == SinDeg(t1)
      cosT2 == CosDeg(t2)
      sinT2 == SinDeg(t2)
      p1x == Sub(Add(P.cx, Mul(rx, Mul(cosPhi, cosT1))), Mul(ry, Mul(sinPhi, sinT1)))
      p1y == Add(Add(P.cy, Mul(rx, Mul(sinPhi, cosT1))), Mul(ry, Mul(cosPhi, sinT1)))
      p2x == Sub(Add(P.cx, Mul(rx, Mul(cosPhi, cosT2))), Mul(ry, Mul(sinPhi, sinT2)))
      p2y == Add(Add(P.cy, Mul(rx, Mul(sinPhi, cosT2))), Mul(ry, Mul(cosPhi, sinT2)))
      d1x == Sub(Mul(Mul(Neg(rx), cosPhi), sinT1), Mul(Mul(ry, sinPhi), cosT1))
      d1y == Add(Mul(Mul(Neg(rx), sinPhi), sinT1), Mul(Mul(ry, cosPhi), cosT1))
      d2x == Sub(Mul(Mul(Neg(rx), cosPhi), sinT2), Mul(Mul(ry, sinPhi), cosT2))
      d2y == Add(Mul(Mul(Neg(rx), sinPhi), sinT2), Mul(Mul(ry, cosPhi), cosT2))
      alpha == Mul(Frac(4, 3), TanQuarterOf(t2 - t1))
  IN  CmdC(Add(p1x, Mul(alpha, d1x)), Add(p1y, Mul(alpha, d1y)),
           Sub(p2x, Mul(alpha, d2x)), Sub(p2y, Mul(alpha, d2y)),
           p2x, p2y)

\* The curves of the loop over the segments of a plan.
ArcLoop(P) == [i \in 1..P.segments |-> ArcSegment(P, i)]

\* The curves of an arc that is not degenerate.
ArcCurves(A) == Apply1(ArcLoop, ArcPlan(A))

\* arcToCubic that draws a straight line between identical end points too.
ArcToCubicNoSamePoint(A) ==
  IF StrictEq(A.rx, Zero) \/ StrictEq(A.ry, Zero)
    THEN <<CmdC(A.x0, A.y0, A.x, A.y, A.x, A.y)>>
  ELSE IF StrictEq(A.x0, A.x) /\ StrictEq(A.y0, A.y) THEN <<>>
  ELSE ArcCurves(A)

\* arcToCubic whose straight line for a zero radius starts at the end point.
ArcToCubicLineFromEnd(A) ==
  IF StrictEq(A.x0, A.x) /\ StrictEq(A.y0, A.y) THEN <<>>
  ELSE IF StrictEq(A.rx, Zero) \/ StrictEq(A.ry, Zero)
    THEN <<CmdC(A.x, A.y, A.x, A.y, A.x, A.y)>>
  ELSE ArcCurves(A)

ArcToCubic(A) ==
  IF StrictEq(A.x0, A.x) /\ StrictEq(A.y0, A.y) THEN <<>>
  ELSE IF StrictEq(A.rx, Zero) \/ StrictEq(A.ry, Zero)
    THEN <<CmdC(A.x0, A.y0, A.x, A.y, A.x, A.y)>>
  ELSE ArcCurves(A)

\* The conversion of the arc stays within the values the model computes
\* exactly.
ArcExact(A) ==
  \/ StrictEq(A.x0, A.x) /\ StrictEq(A.y0, A.y)
  \/ StrictEq(A.rx, Zero) \/ StrictEq(A.ry, Zero)
  \/ ArcPlan(A).exact

----------------------------------------------------------------------------
(* Arcs, corners and shapes of the builder *)

\* a(rx, ry, xAxisRotation, largeArcFlag, sweepFlag, x, y) that draws the
\* chord of the arc instead of its curves.
ACallChord(cmds, rx, ry, xAxisRotation, largeArcFlag, sweepFlag, x, y) ==
  IF GetCurrentPoint(cmds) = Point(x, y) THEN <<>> ELSE <<CmdL(x, y)>>

\* The curves a(rx, ry, xAxisRotation, largeArcFlag, sweepFlag, x, y) appends
\* to cmds.
\* An a() that draws every arc as one curve from the pen to the end point.
ACallSingleCurve(cmds, rx, ry, xAxisRotation, largeArcFlag, sweepFlag, x, y) ==
  <<CmdC(GetCurrentPoint(cmds).x, GetCurrentPoint(cmds).y, x, y, x, y)>>

ACall(cmds, rx, ry, xAxisRotation, largeArcFlag, sweepFlag, x, y) ==
  Apply1(ArcToCubic,
         Arc(GetCurrentPoint(cmds).x, GetCurrentPoint(cmds).y,
             rx, ry, xAxisRotation, largeArcFlag, sweepFlag, x, y))

\* A Corner value; a sharp corner has no radii.
Sharp == [kind |-> "sharp", rx |-> Undefined, ry |-> Undefined]

Rounded(rx, ry) == [kind |-> "rounded", rx |-> rx, ry |-> ry]

Chamfer(rx, ry) == [kind |-> "chamfer", rx |-> rx, ry |-> ry]

\* An omitted corner of a Rect configuration.
NoCorner == [kind |-> "undefined", rx |-> Undefined, ry |-> Undefined]

\* The commands corner(side, x, y, corner) appends.
CornerCall(side, x, y, corner) ==
  CASE corner.kind = "rounded" ->
         (CASE side = "tr" -> <<CmdL(Sub(x, corner.rx), y),
                                CmdQ(x, y, x, Add(y, corner.ry))>>
            [] side = "br" -> <<CmdL(x, Sub(y, corner.ry)),
                                CmdQ(x, y, Sub(x, corner.rx), y)>>
            [] side = "bl" -> <<CmdL(Add(x, corner.rx), y),
                                CmdQ(x, y, x, Sub(y, corner.ry))>>
            [] side = "tl" -> <<CmdL(x, Add(y, corner.ry)),
                                CmdQ(x, y, Add(x, corner.rx), y)>>)
    [] corner.kind = "chamfer" ->
         (CASE side = "tr" -> <<CmdL(Sub(x, corner.rx), y),
                                CmdL(x, Add(y, corner.ry))>>
            [] side = "br" -> <<CmdL(x, Sub(y, corner.ry)),
                                CmdL(Sub(x, corner.rx), y)>>
            [] side = "bl" -> <<CmdL(Add(x, corner.rx), y),
                                CmdL(x, Sub(y, corner.ry))>>
            [] side = "tl" -> <<CmdL(x, Add(y, corner.ry)),
                                CmdL(Add(x, corner.rx), y)>>)
    [] corner.kind = "sharp" -> <<CmdL(x, y)>>

\* A Rect configuration; omitted radii are Undefined, omitted corners NoCorner.
RectConfig(x, y, w, h, rx, ry, tl, tr, br, bl) ==
  [x |-> x, y |-> y, width |-> w, height |-> h, rx |-> rx, ry |-> ry,
   tl |-> tl, tr |-> tr, br |-> br, bl |-> bl]

\* The commands rect(config) appends.
RectCall(config) ==
  LET rx0 == OrElse(config.rx, Zero)
      ry0 == OrElse(config.ry, rx0)
      rx == MathMin(rx0, Div(config.width, Two))
      ry == MathMin(ry0, Div(config.height, Two))
      resolveCorner(corner) ==
        IF corner # NoCorner THEN corner
        ELSE IF rx = Zero /\ ry = Zero THEN Sharp
        ELSE Rounded(rx, ry)
      tl == resolveCorner(config.tl)
      tr == resolveCorner(config.tr)
      br == resolveCorner(config.br)
      bl == resolveCorner(config.bl)
      x == config.x
      y == config.y
      start == IF tl.kind \in {"rounded", "chamfer"}
                 THEN CmdM(Add(x, OrElse(tl.rx, Zero)), y)
                 ELSE CmdM(x, y)
  IN  <<start>>
        \o CornerCall("tr", Add(x, config.width), y, tr)
        \o CornerCall("br", Add(x, config.width), Add(y, config.height), br)
        \o CornerCall("bl", x, Add(y, config.height), bl)
        \o CornerCall("tl", x, y, tl)
        \o <<CmdZ>>

\* The literal 0.5522847498307936, rounded to four places.
Kappa == Frac(5523, 10000)

\* ellipse(cx, cy, rx, ry) that leaves the subpath open.
EllipseCallOpen(cx, cy, rx, ry) ==
  LET ox == Mul(rx, Kappa)
      oy == Mul(ry, Kappa)
  IN  << CmdM(Sub(cx, rx), cy),
         CmdC(Sub(cx, rx), Sub(cy, oy), Sub(cx, ox), Sub(cy, ry),
              cx, Sub(cy, ry)),
         CmdC(Add(cx, ox), Sub(cy, ry), Add(cx, rx), Sub(cy, oy),
              Add(cx, rx), cy),
         CmdC(Add(cx, rx), Add(cy, oy), Add(cx, ox), Add(cy, ry),
              cx, Add(cy, ry)),
         CmdC(Sub(cx, ox), Add(cy, ry), Sub(cx, rx), Add(cy, oy),
              Sub(cx, rx), cy) >>

\* The commands ellipse(cx, cy, rx, ry) appends.
EllipseCall(cx, cy, rx, ry) ==
  LET ox == Mul(rx, Kappa)
      oy == Mul(ry, Kappa)
      x0 == Sub(cx, rx)
      y0 == cy
      x1 == cx
      y1 == Sub(cy, ry)
      x2 == Add(cx, rx)
      y3 == Add(cy, ry)
  IN  << CmdM(x0, y0),
         CmdC(x0, Sub(y0, oy), Sub(x1, ox), y1, x1, y1),
         CmdC(Add(x1, ox), y1, x2, Sub(y0, oy), x2, y0),
         CmdC(x2, Add(y0, oy), Add(x1, ox), y3, x1, y3),
         CmdC(Sub(x1, ox), y3, x0, Add(y0, oy), x0, y0),
         CmdZ >>

\* The commands circle(cx, cy, r) appends.
CircleCall(cx, cy, r) == EllipseCall(cx, cy, r, r)

----------------------------------------------------------------------------
(* Path data text *)

(***************************************************************************)
(* A text is a sequence of one-character strings.  toPathData is           *)
(* translated from the source.  The source of parsePathData is not part of *)
(* the material; it is modelled from the specification's sections 4.5, 6   *)
(* and 7 as one pass over the characters of the text.                      *)
(***************************************************************************)

Digits == <<"0", "1", "2", "3", "4", "5", "6", "7", "8", "9">>

DigitValue(ch) == CHOOSE i \in 0..9 : Digits[i + 1] = ch

RECURSIVE NatText(_)
\* The decimal digits of a natural number.
NatText(i) ==
  IF i < 10 THEN <<Digits[i + 1]>>
  ELSE Append(NatText(i \div 10), Digits[(i % 10) + 1])

RECURSIVE Pow10(_)
Pow10(k) == IF k = 0 THEN 1 ELSE 10 * Pow10(k - 1)

\* The number of fraction digits of the decimal expansion of 1/j, for j a
\* product of twos and fives.
FractionDigits(j) == CHOOSE k \in 0..9 : Pow10(k) % j = 0 /\
                                         \A i \in 0..(k - 1) : Pow10(i) % j # 0

\* The last k decimal digits of i, leading zeros included.
PaddedText(i, k) == [p \in 1..k |-> Digits[((i \div Pow10(k - p)) % 10) + 1]]

\* String(number) as a template literal interpolates it: the shortest
\* decimal text of a value that has one, "NaN", "Infinity" or "-Infinity".
NumberText(v) ==
  CASE IsNaN(v) -> <<"N", "a", "N">>
    [] v = Infinity -> <<"I", "n", "f", "i", "n", "i", "t", "y">>
    [] v = NegInfinity -> <<"-", "I", "n", "f", "i", "n", "i", "t", "y">>
    [] IsFinite(v) ->
         LET k == FractionDigits(v.d)
             scaled == Abs(v.n) * (Pow10(k) \div v.d)
         IN  (IF v.n < 0 THEN <<"-">> ELSE <<>>)
               \o NatText(scaled \div Pow10(k))
               \o (IF k = 0 THEN <<>> ELSE <<".">> \o PaddedText(scaled % Pow10(k), k))

\* The texts of the given fields of a command after its letter, each
\* preceded by a space.
FieldsText(cmd, fields) ==
  IF fields = <<>> THEN <<>>
  ELSE LET F(i) == <<" ">> \o NumberText(cmd[fields[i]])
       IN  CASE Len(fields) = 1 -> F(1)
             [] Len(fields) = 2 -> F(1) \o F(2)
             [] Len(fields) = 4 -> F(1) \o F(2) \o F(3) \o F(4)
             [] Len(fields) = 6 -> F(1) \o F(2) \o F(3) \o F(4) \o F(5) \o F(6)

\* The text toPathData gives one command, with C written without its
\* second control point.
CommandTextShortC(cmd) ==
  CASE cmd.type \in {"M", "L", "T"} -> <<cmd.type>> \o FieldsText(cmd, <<"x", "y">>)
    [] cmd.type = "H" -> <<"H">> \o FieldsText(cmd, <<"x">>)
    [] cmd.type = "V" -> <<"V">> \o FieldsText(cmd, <<"y">>)
    [] cmd.type = "Q" -> <<"Q">> \o FieldsText(cmd, <<"x1", "y1", "x", "y">>)
    [] cmd.type = "C" -> <<"C">> \o FieldsText(cmd, <<"x1", "y1", "x", "y">>)
    [] cmd.type = "S" -> <<"S">> \o FieldsText(cmd, <<"x2", "y2", "x", "y">>)
    [] cmd.type = "Z" -> <<"Z">>
    [] OTHER -> <<>>

\* The text toPathData gives one command.
CommandText(cmd) ==
  CASE cmd.type \in {"M", "L", "T"} -> <<cmd.type>> \o FieldsText(cmd, <<"x", "y">>)
    [] cmd.type = "H" -> <<"H">> \o FieldsText(cmd, <<"x">>)
    [] cmd.type = "V" -> <<"V">> \o FieldsText(cmd, <<"y">>)
    [] cmd.type = "Q" -> <<"Q">> \o FieldsText(cmd, <<"x1", "y1", "x", "y">>)
    [] cmd.type = "C" ->
         <<"C">> \o FieldsText(cmd, <<"x1", "y1", "x2", "y2", "x", "y">>)
    [] cmd.type = "S" -> <<"S">> \o FieldsText(cmd, <<"x2", "y2", "x", "y">>)
    [] cmd.type = "Z" -> <<"Z">>
    [] OTHER -> <<>>

\* texts[lo] ... texts[hi] joined with single spaces.
RECURSIVE JoinSpace(_, _, _)
JoinSpace(texts, lo, hi) ==
  IF lo > hi THEN <<>>
  ELSE IF lo = hi THEN texts[lo]
  ELSE JoinSpace(texts, lo, (lo + hi) \div 2) \o <<" ">>
         \o JoinSpace(texts, (lo + hi) \div 2 + 1, hi)

ToPathData(cmds) ==
  Apply1(LAMBDA texts : JoinSpace(texts, 1, Len(texts)),
         [i \in 1..Len(cmds) |-> CommandText(cmds[i])])

CommandLetters == {"M", "L", "H", "V", "Q", "C", "T", "S", "A", "Z"}

Separators == {" ", ","}

DigitChars == {Digits[i] : i \in 1..10}

SignChars == {"-", "+"}

\* The number of numeric arguments of one group of a command.
Arity(letter) ==
  CASE letter \in {"M", "L", "T"} -> 2
    [] letter \in {"H", "V"} -> 1
    [] letter \in {"Q", "S"} -> 4
    [] letter = "C" -> 6
    [] letter = "A" -> 7
    [] letter = "Z" -> 0

\* The command a complete group of arguments stands for; an arc keeps its
\* seven arguments until it is lowered.
GroupCommand(letter, args) ==
  CASE letter = "M" -> CmdM(args[1], args[2])
    [] letter = "L" -> CmdL(args[1], args[2])
    [] letter = "T" -> CmdT(args[1], args[2])
    [] letter = "H" -> CmdH(args[1])
    [] letter = "V" -> CmdV(args[1])
    [] letter = "Q" -> CmdQ(args[1], args[2], args[3], args[4])
    [] letter = "S" -> CmdS(args[1], args[2], args[3], args[4])
    [] letter = "C" -> CmdC(args[1], args[2], args[3], args[4], args[5], args[6])
    [] letter = "A" -> [type |-> "A", rx |-> args[1], ry |-> args[2],
                        xAxisRotation |-> args[3], largeArcFlag |-> args[4],
                        sweepFlag |-> args[5], x |-> args[6], y |-> args[7]]
    [] letter = "Z" -> CmdZ

RECURSIVE DigitsValue(_, _)
\* The natural number written by the first k of the given digits.
DigitsValue(digs, k) ==
  IF k = 0 THEN 0 ELSE 10 * DigitsValue(digs, k - 1) + DigitValue(digs[k])

\* A token is a number when it has a digit; the scan lets a sign in only as
\* its first character and a decimal point in only once.
IsNumberToken(tok) == \E i \in 1..Len(tok) : tok[i] \in DigitChars

TokenValue(tok) ==
  LET digs == SelectSeq(tok, LAMBDA ch : ch \in DigitChars)
      dot == IF \E i \in 1..Len(tok) : tok[i] = "."
               THEN CHOOSE i \in 1..Len(tok) : tok[i] = "."
               ELSE Len(tok)
      value == Frac(DigitsValue(digs, Len(digs)), Pow10(Len(tok) - dot))
  IN  IF tok[1] = "-" THEN Neg(value) ELSE value

ScanStart == [cmds |-> <<>>, letter |-> "", args |-> <<>>, tok |-> <<>>,
              groups |-> 0, err |-> FALSE]

ScanFail(st) == [st EXCEPT !.err = TRUE]

\* The arguments read so far are complete: the group becomes a command.
EmitGroup(st) ==
  IF Len(st.args) = Arity(st.letter)
    THEN [st EXCEPT !.cmds = Append(@, GroupCommand(st.letter, st.args)),
                    !.args = <<>>, !.groups = @ + 1]
    ELSE st

\* The two flags of an arc come after its three first arguments.
AtFlag(st) == st.letter = "A" /\ Len(st.args) \in {3, 4} /\ st.tok = <<>>

\* The current token ends: it must be a number, and one the current command
\* takes.
EndToken(st) ==
  IF st.tok = <<>> THEN st
  ELSE IF ~IsNumberToken(st.tok) \/ st.letter \in {"", "Z"} THEN ScanFail(st)
  ELSE EmitGroup([st EXCEPT !.args = Append(@, TokenValue(st.tok)),
                            !.tok = <<>>])

\* No group is left unfinished, and a command that takes arguments got some.
GroupsComplete(st) ==
  /\ st.args = <<>>
  /\ st.letter \in {"", "Z"} \/ st.groups > 0

StartCommand(st, letter) ==
  IF st.err THEN st
  ELSE IF ~GroupsComplete(st) THEN ScanFail(st)
  ELSE EmitGroup([st EXCEPT !.letter = letter, !.groups = 0])

\* A character that begins a new number.
StartToken(st, ch) ==
  IF st.err THEN st
  ELSE IF AtFlag(st) THEN ScanFail(st)
  ELSE [st EXCEPT !.tok = <<ch>>]

\* A flag is one digit, 0 or 1, whatever follows it.
ReadFlag(st, ch) ==
  IF ch \in {"0", "1"} THEN EndToken([st EXCEPT !.tok = <<ch>>])
  ELSE ScanFail(st)

ScanStep(st, ch) ==
  IF st.err THEN st
  ELSE CASE ch \in CommandLetters -> StartCommand(EndToken(st), ch)
         [] ch \in Separators -> EndToken(st)
         [] ch \in DigitChars ->
              IF AtFlag(st) THEN ReadFlag(st, ch)
              ELSE [st EXCEPT !.tok = Append(@, ch)]
         [] ch = "." ->
              IF \E i \in 1..Len(st.tok) : st.tok[i] = "."
                THEN StartToken(EndToken(st), ch)
              ELSE IF AtFlag(st) THEN ScanFail(st)
              ELSE [st EXCEPT !.tok = Append(@, ch)]
         [] ch \in SignChars -> StartToken(EndToken(st), ch)
         [] OTHER -> ScanFail(st)

RECURSIVE ScanLoop(_, _, _, _)
\* The scan of text[lo] ... text[hi] from state st.
ScanLoop(text, lo, hi, st) ==
  IF lo > hi THEN st
  ELSE IF lo = hi THEN ScanStep(st, text[lo])
  ELSE CHOOSE r \in {ScanLoop(text, (lo + hi) \div 2 + 1, hi, half) :
                       half \in {ScanLoop(text, lo, (lo + hi) \div 2, st)}} : TRUE

\* An end of scan that lets an unfinished group go.
ScanEndLenient(st) == st

ScanEnd(st) ==
  IF st.err \/ GroupsComplete(st) THEN st ELSE ScanFail(st)

\* The commands the text spells, arcs not yet lowered.
Scan(text) ==
  Apply1(ScanEnd, Apply1(EndToken, ScanLoop(text, 1, Len(text), ScanStart)))

\* The outcomes of parsePathData: a parse error, or the commands of the text;
\* of a text with an arc outside the exact domain of the arc conversion, the
\* commands as they were read, the arcs not lowered.
ParseError == [ok |-> FALSE]

Parsed(cmds) == [ok |-> TRUE, exact |-> TRUE, commands |-> cmds]

Unconverted(cmds) == [ok |-> TRUE, exact |-> FALSE, read |-> cmds]

\* The arc command as the arc a() converts from the pen of the commands
\* before it.
ArcOf(cmds, cmd) ==
  Arc(GetCurrentPoint(cmds).x, GetCurrentPoint(cmds).y, cmd.rx, cmd.ry,
      cmd.xAxisRotation, cmd.largeArcFlag, cmd.sweepFlag, cmd.x, cmd.y)

\* An arc is lowered to the curves of a(); any other command is kept.
LowerStep(low, cmd) ==
  IF ~low.exact THEN low
  ELSE IF cmd.type # "A" THEN [low EXCEPT !.cmds = Append(@, cmd)]
  ELSE IF Apply1(ArcExact, ArcOf(low.cmds, cmd))
    THEN [low EXCEPT !.cmds = @ \o ACall(low.cmds, cmd.rx, cmd.ry,
                                         cmd.xAxisRotation, cmd.largeArcFlag,
                                         cmd.sweepFlag, cmd.x, cmd.y)]
  ELSE [low EXCEPT !.exact = FALSE]

RECURSIVE LowerLoop(_, _, _, _)
LowerLoop(raw, lo, hi, low) ==
  IF lo > hi THEN low
  ELSE IF lo = hi THEN LowerStep(low, raw[lo])
  ELSE CHOOSE r \in {LowerLoop(raw, (lo + hi) \div 2 + 1, hi, half) :
                       half \in {LowerLoop(raw, lo, (lo + hi) \div 2, low)}} : TRUE

Lower(raw) == LowerLoop(raw, 1, Len(raw), [exact |-> TRUE, cmds |-> <<>>])

LoweredResult(raw, low) ==
  IF low.exact THEN Parsed(low.cmds) ELSE Unconverted(raw)

ParseResult(st) ==
  IF st.err THEN ParseError
  ELSE Apply1(LAMBDA low : LoweredResult(st.cmds, low), Lower(st.cmds))

ParsePathData(text) == Apply1(ParseResult, Scan(text))

----------------------------------------------------------------------------
(* Inputs *)

\* Arguments of the builder operations.
MArgs == {<<Num(1), Num(2)>>, <<Num(5), Num(4)>>}

LArgs == {<<Num(5), Num(4)>>}

TArgs == {<<Num(3), Frac(1, 2)>>}

HArgs == {<<Num(-2)>>}

VArgs == {<<Num(7)>>}

QArgs == {<<Num(-1), Num(6), Num(5), Num(4)>>}

CArgs == {<<Num(-1), Num(6), Frac(15, 2), Num(0), Num(1), Num(2)>>}

SArgs == {<<Frac(15, 2), Num(0), Num(5), Num(4)>>}

\* The outline built by the repository's "fit" test.
FolderCommands ==
  <<CmdM(Num(0), Num(0)),
    CmdL(Num(0), Num(3)), CmdQ(Num(0), Num(0), Num(3), Num(0)),
    CmdL(Num(9), Num(0)), CmdL(Num(12), Num(3)),
    CmdL(Num(21), Num(3)), CmdQ(Num(24), Num(3), Num(24), Num(6)),
    CmdL(Num(24), Num(16)), CmdQ(Num(24), Num(19), Num(21), Num(19)),
    CmdL(Num(3), Num(19)), CmdQ(Num(0), Num(19), Num(0), Num(16)),
    CmdZ>>

\* A list with single-axis commands, curves carrying control points, and a
\* Close.
MixedCommands ==
  <<CmdM(Num(1), Num(2)), CmdH(Num(-2)), CmdV(Num(7)),
    CmdC(Num(-1), Num(6), Frac(15, 2), Num(0), Num(5), Num(4)),
    CmdS(Num(9), Num(-3), Num(3), Num(3)), CmdZ>>

\* A vertical stroke: its envelope has zero width.
StrokeCommands == <<CmdM(Num(1), Num(2)), CmdV(Num(7))>>

\* Two subpaths, the first one closed.
SubpathCommands ==
  <<CmdM(Num(1), Num(2)), CmdL(Num(5), Num(4)), CmdZ,
    CmdM(Num(5), Num(4)), CmdT(Num(3), Num(7))>>

\* new Path(width, height, commands), an omitted argument being Undefined
CtorArgs ==
  {<<Num(10), Num(6), <<>>>>,
   <<Undefined, Undefined, FolderCommands>>,
   <<Num(8), Undefined, MixedCommands>>,
   <<Num(10), Num(6), StrokeCommands>>,
   <<Undefined, Num(16), SubpathCommands>>}

\* dx, dy
TranslateArgs == {<<Num(3), Frac(-1, 2)>>}

\* sx, sy, cx, cy
ScaleArgs ==
  {<<Num(2), Undefined, Undefined, Undefined>>,
   <<Frac(-1, 2), Num(3), Undefined, Undefined>>,
   <<Num(2), Num(2), Num(1), Undefined>>,
   <<Num(3), Num(-1), Num(1), Num(3)>>}

\* quarter turns, cx, cy
RotateArgs == {<<1, Undefined, Undefined>>, <<2, Num(1), Num(3)>>}

\* width (flipX), height (flipY)
FlipArgs == {<<Undefined>>, <<Num(12)>>}

\* minX, minY, maxX, maxY
CenterArgs ==
  {<<Undefined, Undefined, Undefined, Undefined>>,
   <<Num(0), Num(0), Num(24), Num(24)>>,
   <<Num(5), Num(5), Num(1), Undefined>>}

\* targetWidth, targetHeight, preserveAspect
FitArgs ==
  {<<Undefined, Undefined, "undefined">>,
   <<Num(6), Num(4), "false">>,
   <<Num(6), Num(4), "true">>,
   <<Num(0), Num(5), "true">>,
   <<Num(-6), Num(4), "true">>}

\* Arguments of a: rx, ry, xAxisRotation, largeArcFlag, sweepFlag, x, y.
ArcArgs ==
  {<<Num(2), Num(2), Zero, Zero, Num(1), Num(5), Num(4)>>,
   <<Zero, Num(2), Zero, Zero, Num(1), Num(5), Num(4)>>,
   <<Num(2), Zero, Num(30), Num(1), Zero, Num(1), Num(2)>>,
   <<Num(1), Num(1), Zero, Zero, Num(1), Num(6), Num(5)>>,
   <<Num(-1), Num(1), Zero, Num(1), Num(1), Num(6), Num(5)>>,
   <<Num(2), Num(2), Zero, Zero, Zero, Num(13), Num(4)>>,
   <<Num(2), Num(1), Num(90), Zero, Num(1), Num(6), Num(6)>>}

\* Arguments of corner, roundedCorner and chamferCorner.
CornerArgs ==
  {<<"tr", Num(10), Zero, Rounded(Num(2), Num(2))>>,
   <<"bl", Zero, Num(6), Chamfer(Num(1), Num(2))>>,
   <<"br", Num(10), Num(6), Sharp>>}

RoundedCornerArgs == {<<"tl", Zero, Zero, Num(2), Num(1)>>}

ChamferCornerArgs == {<<"br", Num(10), Num(6), Num(1), Num(1)>>}

RectArgs ==
  {RectConfig(Num(1), Num(1), Num(8), Num(4), Undefined, Undefined,
              NoCorner, NoCorner, NoCorner, NoCorner),
   RectConfig(Zero, Zero, Num(4), Num(2), Num(3), Undefined,
              NoCorner, NoCorner, NoCorner, NoCorner),
   RectConfig(Zero, Zero, Num(8), Num(6), Undefined, Undefined,
              Chamfer(Num(1), Num(1)), Rounded(Num(2), Num(1)), Sharp, NoCorner),
   RectConfig(Zero, Zero, Num(4), Num(2), Undefined, Undefined,
              NoCorner, Rounded(Num(6), Num(3)), NoCorner, NoCorner)}

EllipseArgs == {<<Num(5), Num(4), Num(2), Num(1)>>}

CircleArgs == {<<Num(1), Num(2), Num(3)>>}

\* Constructor arguments of the paths the shapes are appended to.
BuildCtorArgs ==
  {<<Num(10), Num(6), <<>>>>,
   <<Undefined, Undefined, <<CmdM(Num(1), Num(2)), CmdL(Num(5), Num(4))>>>>}

\* Path data texts.  After each name, the text in one piece.

\* "M 2 3"
TextMove ==
  <<"M", " ", "2", " ", "3">>

\* "M 2 3L2.5 123"
TextMoveLine ==
  <<"M", " ", "2", " ", "3", "L", "2", ".", "5", " ", "1", "2", "3">>

\* "M 2 3.4C0.2 2 2 2 3 3Z"
TextCurveClose ==
  <<"M", " ", "2", " ", "3", ".", "4", "C", "0", ".", "2", " ", "2", " ",
    "2", " ", "2", " ", "3", " ", "3", "Z">>

\* "M5.1 0.21A2 2.5 0 0123.54 74", the arc of the repository's parse test
TextArcFlags ==
  <<"M", "5", ".", "1", " ", "0", ".", "2", "1", "A", "2", " ", "2", ".",
    "5", " ", "0", " ", "0", "1", "2", "3", ".", "5", "4", " ", "7", "4">>

\* "M5 0.2A2 2.5 0 0123.5 .2": the same run of flags, on a level chord whose
\* conversion is exact
TextArcHalfTurn ==
  <<"M", "5", " ", "0", ".", "2", "A", "2", " ", "2", ".", "5", " ", "0",
    " ", "0", "1", "2", "3", ".", "5", " ", ".", "2">>

\* "M1,2 3,4L5,6,7,8": commas, and groups that repeat their command
TextRepeated ==
  <<"M", "1", ",", "2", " ", "3", ",", "4", "L", "5", ",", "6", ",", "7",
    ",", "8">>

\* "M1-2.5.5-3": numbers that end at a sign or at a second decimal point
TextPacked ==
  <<"M", "1", "-", "2", ".", "5", ".", "5", "-", "3">>

\* "M 1 2 3": one number more than a group
TextExtraNumber ==
  <<"M", " ", "1", " ", "2", " ", "3">>

\* "M 1 2L 3": one number fewer than a group
TextMissingNumber ==
  <<"M", " ", "1", " ", "2", "L", " ", "3">>

\* "M 1 2 L": a command without its numbers
TextNoNumbers ==
  <<"M", " ", "1", " ", "2", " ", "L">>

\* "M 1 2 C 1 2 3 4 5": five of the six numbers of a curve
TextShortCurve ==
  <<"M", " ", "1", " ", "2", " ", "C", " ", "1", " ", "2", " ", "3", " ",
    "4", " ", "5">>

\* "M 1 2 Z 3": a number after the command that takes none
TextNumberAfterClose ==
  <<"M", " ", "1", " ", "2", " ", "Z", " ", "3">>

\* "M 1 2 L 3 x": a token that is no number
TextWord ==
  <<"M", " ", "1", " ", "2", " ", "L", " ", "3", " ", "x">>

\* "M 1 -": a sign without digits
TextLoneSign ==
  <<"M", " ", "1", " ", "-">>

\* Texts of the input grammar.
WellFormedTexts ==
  {TextMove, TextMoveLine, TextCurveClose, TextArcFlags, TextArcHalfTurn,
   TextRepeated, TextPacked}

\* Texts with the wrong number of numeric tokens, or with a token that is not
\* a number.
MalformedTexts ==
  {TextExtraNumber, TextMissingNumber, TextNoNumbers, TextShortCurve,
   TextNumberAfterClose, TextWord, TextLoneSign}

\* A list with negative and fractional coordinates.
DecimalCommands ==
  <<CmdM(Frac(-51, 10), Frac(21, 100)), CmdT(Frac(1, 8), Num(120)),
    CmdQ(Frac(-1, 2), Num(0), Frac(5, 4), Num(-30))>>

\* Lists with a coordinate that is not finite: the constructor and the
\* builders take any number.
UnboundedCommands == <<CmdM(Num(1), Num(2)), CmdL(Infinity, Num(4))>>

NotANumberCommands == <<CmdM(Num(1), Num(2)), CmdV(NaN)>>

\* Command lists of the paths whose text is written and read.
TextCtorArgs ==
  {<<>>, FolderCommands, MixedCommands, SubpathCommands, DecimalCommands,
   UnboundedCommands, NotANumberCommands}

----------------------------------------------------------------------------
(* State machine *)

\* `last' records the most recent call: its name, its arguments, the command
\* list it found, and the coordinate function it handed to _mapCoords.
\* `before' keeps the name, arguments and command list of the call before it.
NoCall == [op |-> "none", args |-> <<>>, pre |-> <<>>]

\* `heap' holds the command arrays, the Paths and the PathGroup of the
\* specifications with several Paths; a single Path is followed without it.
NoHeap == [lists |-> <<>>, paths |-> <<>>, given |-> {}, cloned |-> {},
           group |-> <<>>]

Call(op, args, fn) ==
  [op |-> op, args |-> args, pre |-> commands, fn |-> fn,
   before |-> [op |-> last.op, args |-> last.args, pre |-> last.pre]]

Init ==
  /\ \E a \in CtorArgs :
       /\ width = OrElse(a[1], Num(24))
       /\ height = OrElse(a[2], width)
       /\ commands = a[3]
  /\ last = [op |-> "new", args |-> <<>>, pre |-> <<>>, fn |-> NoFn,
             before |-> NoCall]
  /\ nCalls = 0
  /\ heap = NoHeap

Push(op, args, cmd) ==
  /\ nCalls < MaxCalls
  /\ nCalls' = nCalls + 1
  /\ commands' = Append(commands, cmd)
  /\ last' = Call(op, args, NoFn)
  /\ UNCHANGED <<width, height, heap>>

m == \E a \in MArgs : Push("m", a, CmdM(a[1], a[2]))

l == \E a \in LArgs : Push("l", a, CmdL(a[1], a[2]))

h == \E a \in HArgs : Push("h", a, CmdH(a[1]))

v == \E a \in VArgs : Push("v", a, CmdV(a[1]))

q == \E a \in QArgs : Push("q", a, CmdQ(a[1], a[2], a[3], a[4]))

c == \E a \in CArgs : Push("c", a, CmdC(a[1], a[2], a[3], a[4], a[5], a[6]))

t == \E a \in TArgs : Push("t", a, CmdT(a[1], a[2]))

s == \E a \in SArgs : Push("s", a, CmdS(a[1], a[2], a[3], a[4]))

close == Push("close", <<>>, CmdZ)

Transform(op, args, fn) ==
  /\ nCalls < MaxCalls
  /\ nCalls' = nCalls + 1
  /\ commands' = Remap(commands, fn)
  /\ last' = Call(op, args, fn)
  /\ UNCHANGED <<width, height, heap>>

translate == \E a \in TranslateArgs :
  Transform("translate", a, TranslateCall(a[1], a[2]))

scale == \E a \in ScaleArgs :
  Transform("scale", a, ScaleCall(commands, a[1], a[2], a[3], a[4]))

rotate == \E a \in RotateArgs :
  Transform("rotate", a, RotateCall(a[1], a[2], a[3]))

flipX == \E a \in FlipArgs :
  Transform("flipX", a, FlipXCall(width, a[1]))

flipY == \E a \in FlipArgs :
  Transform("flipY", a, FlipYCall(height, a[1]))

center == \E a \in CenterArgs :
  Transform("center", a, CenterCall(commands, width, height, a[1], a[2], a[3], a[4]))

fit == \E a \in FitArgs :
  Transform("fit", a, FitCall(commands, width, height, a[1], a[2], a[3]))

Next ==
  \/ m \/ l \/ h \/ v \/ q \/ c \/ t \/ s \/ close
  \/ translate \/ scale \/ rotate \/ flipX \/ flipY \/ center \/ fit

Spec == Init /\ [][Next]_vars

\* The state after new Path(width, height, commands) of a path that shapes
\* are appended to.
InitBuild ==
  /\ \E a \in BuildCtorArgs :
       /\ width = OrElse(a[1], Num(24))
       /\ height = OrElse(a[2], width)
       /\ commands = a[3]
  /\ last = [op |-> "new", args |-> <<>>, pre |-> <<>>, fn |-> NoFn,
             before |-> NoCall]
  /\ nCalls = 0
  /\ heap = NoHeap

\* An operation that appends several commands.
PushAll(op, args, cmds) ==
  /\ nCalls < MaxCalls
  /\ nCalls' = nCalls + 1
  /\ commands' = commands \o cmds
  /\ last' = Call(op, args, NoFn)
  /\ UNCHANGED <<width, height, heap>>

\* a(...), followed on the arcs whose conversion the model computes exactly.
a == \E args \in ArcArgs :
  /\ Apply1(ArcExact,
            Arc(GetCurrentPoint(commands).x, GetCurrentPoint(commands).y,
                args[1], args[2], args[3], args[4], args[5], args[6], args[7]))
  /\ PushAll("a", args,
             ACall(commands, args[1], args[2], args[3], args[4], args[5],
                   args[6], args[7]))

corner == \E args \in CornerArgs :
  PushAll("corner", args, CornerCall(args[1], args[2], args[3], args[4]))

roundedCorner == \E args \in RoundedCornerArgs :
  PushAll("roundedCorner", args,
          CornerCall(args[1], args[2], args[3], Rounded(args[4], args[5])))

chamferCorner == \E args \in ChamferCornerArgs :
  PushAll("chamferCorner", args,
          CornerCall(args[1], args[2], args[3], Chamfer(args[4], args[5])))

rect == \E config \in RectArgs : PushAll("rect", <<config>>, RectCall(config))

ellipse == \E args \in EllipseArgs :
  PushAll("ellipse", args, EllipseCall(args[1], args[2], args[3], args[4]))

circle == \E args \in CircleArgs :
  PushAll("circle", args, CircleCall(args[1], args[2], args[3]))

NextBuild ==
  \/ m \/ l \/ h \/ v \/ q \/ c \/ t \/ s \/ close
  \/ a \/ corner \/ roundedCorner \/ chamferCorner \/ rect \/ ellipse \/ circle
  \/ translate \/ rotate \/ flipX

SpecBuild == InitBuild /\ [][NextBuild]_vars

\* new Path(width, height, commands) of the paths that are appended to and
\* transformed in turn.
AppendCtorArgs ==
  {<<Num(8), Undefined, SubpathCommands>>,
   <<Undefined, Undefined, <<>>>>,
   <<Num(10), Num(6), StrokeCommands>>}

\* The state after new Path(width, height, commands), the arguments of the
\* constructor on record.
InitAppend ==
  /\ \E args \in AppendCtorArgs :
       /\ width = OrElse(args[1], Num(24))
       /\ height = OrElse(args[2], width)
       /\ commands = args[3]
       /\ last = [op |-> "new", args |-> args, pre |-> <<>>, fn |-> NoFn,
                  before |-> NoCall]
  /\ nCalls = 0
  /\ heap = NoHeap

NextAppend ==
  \/ m \/ l \/ h \/ v \/ q \/ c \/ t \/ s \/ close
  \/ ellipse \/ circle
  \/ translate \/ scale \/ rotate \/ flipX \/ flipY \/ center \/ fit

SpecAppend == InitAppend /\ [][NextAppend]_vars

\* The paths whose commands are written as text, and the texts that are read.
InitText ==
  /\ \E list \in TextCtorArgs :
       /\ width = Num(24)
       /\ height = width
       /\ commands = list
  /\ last = [op |-> "new", args |-> <<>>, pre |-> <<>>, fn |-> NoFn,
             before |-> NoCall]
  /\ nCalls = 0
  /\ heap = NoHeap

\* A call that returns a value and leaves the path as it is: `last' records
\* the call and, as `out', the value.
Query(op, args, out) ==
  /\ last' = [op |-> op, args |-> args, pre |-> commands, out |-> out]
  /\ UNCHANGED <<width, height, commands, nCalls, heap>>

toPathData == Query("toPathData", <<>>, ToPathData(commands))

\* Path.parsePathData(text), of a text of the input sets or of the text the
\* path itself gives.
parsePathData ==
  \E text \in WellFormedTexts \cup MalformedTexts \cup {ToPathData(commands)} :
    Query("parsePathData", <<text>>, ParsePathData(text))

NextText == h \/ close \/ toPathData \/ parsePathData

SpecText == InitText /\ [][NextText]_vars

----------------------------------------------------------------------------
(* Several Paths *)

(***************************************************************************)
(* heap.lists are the arrays of commands, named by their position: those   *)
(* the caller made and those the Paths made.  heap.paths are the Paths,    *)
(* each with its width, its height and the name of the array its _commands *)
(* field refers to.  heap.given records the arrays the caller passed to a  *)
(* constructor, heap.cloned the pairs <<p, q>> of a Path and a clone of    *)
(* it.  Commands are never changed in place, so only arrays have an        *)
(* identity here.                                                          *)
(***************************************************************************)

\* get commands(): the array the Path refers to, as it is now.
CommandsOf(hp, p) == hp.lists[hp.paths[p].commands]

\* A new array.
NewList(hp, cmds) == [hp EXCEPT !.lists = Append(@, cmds)]

\* The constructor body: the Path refers to the array it is handed.
PathCtor(hp, widthArg, heightArg, list) ==
  [hp EXCEPT !.paths =
     Append(@, [width |-> OrElse(widthArg, Num(24)),
                height |-> OrElse(heightArg, OrElse(widthArg, Num(24))),
                commands |-> list])]

\* new Path(width, height, commands) called with <<list>>, or with <<>> for
\* an omitted list, which the default [] replaces.
NewPathCall(hp, widthArg, heightArg, listArg) ==
  IF listArg = <<>>
    THEN PathCtor(NewList(hp, <<>>), widthArg, heightArg, Len(hp.lists) + 1)
    ELSE [PathCtor(hp, widthArg, heightArg, listArg[1])
            EXCEPT !.given = @ \cup {listArg[1]}]

\* push on the array of Path p.
PathPush(hp, p, cmds) ==
  [hp EXCEPT !.lists[hp.paths[p].commands] = @ \o cmds]

\* _mapCoords of Path p: the mapped commands are a new array, which the Path
\* refers to from then on.
PathMap(hp, p, fn) ==
  [NewList(hp, MapCoords(CommandsOf(hp, p), fn))
     EXCEPT !.paths[p].commands = Len(hp.lists) + 1]

\* A clone that refers to the array of the original.
CloneCallSameList(hp, p) ==
  PathCtor(hp, hp.paths[p].width, hp.paths[p].height, hp.paths[p].commands)

\* clone(): the commands are copied one by one into a new array.
CloneCall(hp, p) ==
  PathCtor(NewList(hp, [i \in 1..Len(CommandsOf(hp, p)) |-> CommandsOf(hp, p)[i]]),
           hp.paths[p].width, hp.paths[p].height, Len(hp.lists) + 1)

RECURSIVE MergeLoop(_, _, _, _)
\* The loop of merge from the i-th of the given Paths on.
MergeLoop(hp, paths, i, merged) ==
  IF i > Len(paths) THEN hp
  ELSE MergeLoop(PathPush(hp, merged, CommandsOf(hp, paths[i])), paths, i + 1,
                 merged)

\* Path.merge(paths, width, height)
MergeCall(hp, paths, widthArg, heightArg) ==
  MergeLoop(NewPathCall(hp, widthArg, heightArg, <<>>), paths, 1,
            Len(hp.paths) + 1)

\* The list the caller made before constructing any Path.
CallerList == <<CmdM(Num(1), Num(2)), CmdL(Num(5), Num(4))>>

\* width, height, and the caller's list or none
PathCtorArgs == {<<Num(10), Num(6), <<1>>>>, <<Undefined, Undefined, <<>>>>}

\* The Paths merged, width, height
MergeArgs == {<<<<1>>, Undefined, Undefined>>, <<<<1, 2>>, Num(10), Num(6)>>}

\* The caller has made a list and constructed a first Path, from the list or
\* without it.
InitHeap ==
  /\ width = Num(24)
  /\ height = Num(24)
  /\ commands = <<>>
  /\ \E args \in PathCtorArgs :
       heap = NewPathCall(NewList(NoHeap, CallerList), args[1], args[2], args[3])
  /\ last = [op |-> "new", args |-> <<>>, pre |-> NoHeap]
  /\ nCalls = 0

\* A call on the heap; `last' records it and the heap it found.
HeapCall(op, args, hp) ==
  /\ nCalls < MaxCalls
  /\ nCalls' = nCalls + 1
  /\ heap' = hp
  /\ last' = [op |-> op, args |-> args, pre |-> heap]
  /\ UNCHANGED <<width, height, commands>>

constructor == \E args \in PathCtorArgs :
  HeapCall("new", args, NewPathCall(heap, args[1], args[2], args[3]))

clone == \E p \in 1..Len(heap.paths) :
  HeapCall("clone", <<p>>,
           [CloneCall(heap, p) EXCEPT !.cloned = @ \cup {<<p, Len(heap.paths) + 1>>}])

merge == \E args \in MergeArgs :
  /\ \A i \in 1..Len(args[1]) : args[1][i] \in 1..Len(heap.paths)
  /\ HeapCall("merge", args, MergeCall(heap, args[1], args[2], args[3]))

\* l(x, y) on one of the Paths
lOn == \E p \in 1..Len(heap.paths) : \E args \in LArgs :
  HeapCall("l", <<p>> \o args, PathPush(heap, p, <<CmdL(args[1], args[2])>>))

\* translate(dx, dy) on one of the Paths
translateOn == \E p \in 1..Len(heap.paths) : \E args \in TranslateArgs :
  HeapCall("translate", <<p>> \o args,
           PathMap(heap, p, TranslateCall(args[1], args[2])))

NextHeap == constructor \/ clone \/ merge \/ lOn \/ translateOn

SpecHeap == InitHeap /\ [][NextHeap]_vars

----------------------------------------------------------------------------
(* A PathGroup *)

(***************************************************************************)
(* heap.group is the PathGroup: the Paths it holds, in order, and its      *)
(* width and height.  src/PathGroup.ts is followed; where the earlier text *)
(* of the class (part_000) computes a value in another way, the operator   *)
(* of that text has "Earlier" in its name.                                 *)
(***************************************************************************)

\* The Paths of the group.
Members(hp) == hp.group.paths

RECURSIVE MinOf(_, _)
\* Math.min(...vals) from the i-th value on
MinOf(vals, i) ==
  IF i > Len(vals) THEN Infinity ELSE MathMin(vals[i], MinOf(vals, i + 1))

RECURSIVE MaxOf(_, _)
\* Math.max(...vals) from the i-th value on
MaxOf(vals, i) ==
  IF i > Len(vals) THEN NegInfinity ELSE MathMax(vals[i], MaxOf(vals, i + 1))

\* PathGroup.getBounds()
GroupGetBounds(hp) ==
  IF Len(Members(hp)) = 0
    THEN [minX |-> Zero, minY |-> Zero, maxX |-> Zero, maxY |-> Zero]
    ELSE LET Collect(allBounds) ==
               [minX |-> MinOf([i \in 1..Len(allBounds) |-> allBounds[i].minX], 1),
                minY |-> MinOf([i \in 1..Len(allBounds) |-> allBounds[i].minY], 1),
                maxX |-> MaxOf([i \in 1..Len(allBounds) |-> allBounds[i].maxX], 1),
                maxY |-> MaxOf([i \in 1..Len(allBounds) |-> allBounds[i].maxY], 1)]
         IN  Apply1(Collect, [i \in 1..Len(Members(hp)) |->
                                GetBounds(CommandsOf(hp, Members(hp)[i]))])

\* PathGroup.getCenter()
GroupGetCenter(hp) ==
  Apply1(LAMBDA bounds : Point(Div(Add(bounds.minX, bounds.maxX), Two),
                               Div(Add(bounds.minY, bounds.maxY), Two)),
         GroupGetBounds(hp))

\* The midpoint as the earlier text of scale computes it.
GroupGetCenterEarlier(hp) ==
  Apply1(LAMBDA bounds :
           Point(Add(bounds.minX, Div(Sub(bounds.maxX, bounds.minX), Two)),
                 Add(bounds.minY, Div(Sub(bounds.maxY, bounds.minY), Two))),
         GroupGetBounds(hp))

RECURSIVE GroupTranslateLoop(_, _, _, _)
\* forEach of translate, from the i-th Path on
GroupTranslateLoop(hp, i, dx, dy) ==
  IF i > Len(Members(hp)) THEN hp
  ELSE Apply1(LAMBDA next : GroupTranslateLoop(next, i + 1, dx, dy),
              PathMap(hp, Members(hp)[i], TranslateCall(dx, dy)))

\* PathGroup.translate(dx, dy)
GroupTranslateCall(hp, dx, dy) == GroupTranslateLoop(hp, 1, dx, dy)

RECURSIVE GroupScaleLoop(_, _, _, _, _, _)
\* forEach of scale, from the i-th Path on: each Path is scaled with the
\* pivot it is handed.
GroupScaleLoop(hp, i, sx, sy, centerX, centerY) ==
  IF i > Len(Members(hp)) THEN hp
  ELSE Apply1(LAMBDA next : GroupScaleLoop(next, i + 1, sx, sy, centerX, centerY),
              PathMap(hp, Members(hp)[i],
                      ScaleCall(CommandsOf(hp, Members(hp)[i]), sx, sy,
                                centerX, centerY)))

\* The scale of a group with the pivot (centerX, centerY), once computed.
GroupScaleAbout(hp, sx, sy, centerX, centerY) ==
  CHOOSE r \in {GroupScaleLoop(hp, 1, sx, sy, px, py) :
                  px \in {centerX}, py \in {centerY}} : TRUE

\* A scale of the group that leaves the pivot to each of its Paths.
GroupScaleCallOwnPivots(hp, sx, syArg, cxArg, cyArg) ==
  GroupScaleLoop(hp, 1, sx, OrElse(syArg, sx), cxArg, cyArg)

\* PathGroup.scale(sx, sy, cx, cy)
GroupScaleCall(hp, sx, syArg, cxArg, cyArg) ==
  GroupScaleAbout(hp, sx, OrElse(syArg, sx),
                  OrElse(cxArg, GroupGetCenter(hp).x),
                  OrElse(cyArg, GroupGetCenter(hp).y))

\* scale(sx, sy, cx, cy) of the earlier text
GroupScaleCallEarlier(hp, sx, syArg, cxArg, cyArg) ==
  GroupScaleAbout(hp, sx, OrElse(syArg, sx),
                  OrElse(cxArg, GroupGetCenterEarlier(hp).x),
                  OrElse(cyArg, GroupGetCenterEarlier(hp).y))

RECURSIVE GroupEachLoop(_, _, _)
\* forEach of a call that hands every Path the same coordinate function, from
\* the i-th Path on
GroupEachLoop(hp, i, fn) ==
  IF i > Len(Members(hp)) THEN hp
  ELSE Apply1(LAMBDA next : GroupEachLoop(next, i + 1, fn),
              PathMap(hp, Members(hp)[i], fn))

\* PathGroup.rotate(angle, cx, cy), the angle in quarter turns
GroupRotateCall(hp, quarters, cxArg, cyArg) ==
  GroupEachLoop(hp, 1, RotateCall(quarters, OrElse(cxArg, Zero), OrElse(cyArg, Zero)))

\* The extent of the group's bounds along x and along y.
GroupExtent(hp) ==
  Apply1(LAMBDA bounds : [width |-> Sub(bounds.maxX, bounds.minX),
                          height |-> Sub(bounds.maxY, bounds.minY)],
         GroupGetBounds(hp))

RECURSIVE GroupFlipXLoop(_, _, _)
\* forEach of flipX, from the i-th Path on: every Path is handed the width.
GroupFlipXLoop(hp, i, w) ==
  IF i > Len(Members(hp)) THEN hp
  ELSE Apply1(LAMBDA next : GroupFlipXLoop(next, i + 1, w),
              PathMap(hp, Members(hp)[i],
                      FlipXCall(hp.paths[Members(hp)[i]].width, w)))

RECURSIVE GroupFlipYLoop(_, _, _)
\* forEach of flipY, from the i-th Path on
GroupFlipYLoop(hp, i, h0) ==
  IF i > Len(Members(hp)) THEN hp
  ELSE Apply1(LAMBDA next : GroupFlipYLoop(next, i + 1, h0),
              PathMap(hp, Members(hp)[i],
                      FlipYCall(hp.paths[Members(hp)[i]].height, h0)))

\* PathGroup.flipX(width)
GroupFlipXCall(hp, widthArg) ==
  Apply1(LAMBDA w : GroupFlipXLoop(hp, 1, w),
         OrElse(widthArg, GroupExtent(hp).width))

\* PathGroup.flipY(height)
GroupFlipYCall(hp, heightArg) ==
  Apply1(LAMBDA h0 : GroupFlipYLoop(hp, 1, h0),
         OrElse(heightArg, GroupExtent(hp).height))

\* The offset center computes from the bounds and the target box.
GroupCenterOffset(bounds, minX, minY, maxX, maxY) ==
  LET shapeWidth == Sub(bounds.maxX, bounds.minX)
      shapeHeight == Sub(bounds.maxY, bounds.minY)
      targetWidth == Sub(maxX, minX)
      targetHeight == Sub(maxY, minY)
  IN  Point(Sub(Add(minX, Div(Sub(targetWidth, shapeWidth), Two)), bounds.minX),
            Sub(Add(minY, Div(Sub(targetHeight, shapeHeight), Two)), bounds.minY))

\* The translate that ends center.
GroupTranslateBy(hp, offset) == GroupTranslateCall(hp, offset.x, offset.y)

\* A center that puts the corner of the bounds on (minX, minY).
GroupCenterCallCorner(hp, minXArg, minYArg, maxXArg, maxYArg) ==
  GroupTranslateCall(hp, Sub(OrElse(minXArg, Zero), GroupGetBounds(hp).minX),
                     Sub(OrElse(minYArg, Zero), GroupGetBounds(hp).minY))

\* PathGroup.center(minX, minY, maxX, maxY)
GroupCenterCall(hp, minXArg, minYArg, maxXArg, maxYArg) ==
  Apply1(LAMBDA offset : GroupTranslateBy(hp, offset),
         GroupCenterOffset(GroupGetBounds(hp), OrElse(minXArg, Zero),
                           OrElse(minYArg, Zero), OrElse(maxXArg, hp.group.width),
                           OrElse(maxYArg, hp.group.height)))

\* center(minX, minY, maxX, maxY) of the earlier text, where an omitted maxX
\* or maxY is that of the bounds
GroupCenterCallEarlier(hp, minXArg, minYArg, maxXArg, maxYArg) ==
  Apply1(LAMBDA offset : GroupTranslateBy(hp, offset),
         GroupCenterOffset(GroupGetBounds(hp), OrElse(minXArg, Zero),
                           OrElse(minYArg, Zero),
                           OrElse(maxXArg, GroupGetBounds(hp).maxX),
                           OrElse(maxYArg, GroupGetBounds(hp).maxY)))

\* The factors of fit, or no factors when the bounds have no extent on an
\* axis.
GroupFitFactors(extent, targetWidth, targetHeight, preserveAspect) ==
  LET sx == Div(targetWidth, extent.width)
      sy == Div(targetHeight, extent.height)
  IN  IF extent.width = Zero \/ extent.height = Zero THEN <<>>
      ELSE IF preserveAspect THEN <<MathMin(sx, sy), MathMin(sx, sy)>>
      ELSE <<sx, sy>>

\* The scale that ends fit.
GroupFitScale(hp, factors) ==
  IF factors = <<>> THEN hp
  ELSE GroupScaleCall(hp, factors[1], factors[2], Undefined, Undefined)

\* PathGroup.fit(targetWidth, targetHeight, preserveAspect)
GroupFitCall(hp, targetWidthArg, targetHeightArg, preserveAspectArg) ==
  Apply1(LAMBDA factors : GroupFitScale(hp, factors),
         GroupFitFactors(GroupExtent(hp), OrElse(targetWidthArg, hp.group.width),
                         OrElse(targetHeightArg, hp.group.height),
                         preserveAspectArg # "false"))

\* new PathGroup(paths, width, height) of Paths that are made for it, each
\* from its own list of commands.
GroupCtor(lists, widthArg, heightArg) ==
  [lists |-> lists,
   paths |-> [i \in 1..Len(lists) |->
                [width |-> Num(24), height |-> Num(24), commands |-> i]],
   given |-> 1..Len(lists),
   cloned |-> {},
   group |-> [paths |-> [i \in 1..Len(lists) |-> i],
              width |-> OrElse(widthArg, Num(24)),
              height |-> OrElse(heightArg, OrElse(widthArg, Num(24)))]]

\* The command lists of the Paths of a group, width, height
GroupCtorArgs ==
  {<<<<MixedCommands, SubpathCommands>>, Undefined, Undefined>>,
   <<<<FolderCommands, DecimalCommands, StrokeCommands>>, Num(48), Undefined>>,
   <<<<SubpathCommands, <<>>>>, Num(10), Num(6)>>,
   <<<<<<>>>>, Undefined, Undefined>>,
   <<<<>>, Undefined, Undefined>>}

\* sx, sy, cx, cy
GroupScaleArgs ==
  {<<Num(2), Undefined, Undefined, Undefined>>,
   <<Frac(3, 2), Frac(1, 2), Undefined, Undefined>>,
   <<Num(-1), Num(2), Undefined, Undefined>>,
   <<Num(2), Num(2), Num(1), Num(3)>>,
   <<Frac(1, 2), Undefined, Undefined, Num(0)>>}

InitGroup ==
  /\ width = Num(24)
  /\ height = Num(24)
  /\ commands = <<>>
  /\ \E args \in GroupCtorArgs : heap = GroupCtor(args[1], args[2], args[3])
  /\ last = [op |-> "new", args |-> <<>>, pre |-> NoHeap]
  /\ nCalls = 0

groupTranslate == \E args \in TranslateArgs :
  HeapCall("translate", args, GroupTranslateCall(heap, args[1], args[2]))

groupScale == \E args \in GroupScaleArgs :
  HeapCall("scale", args,
           GroupScaleCall(heap, args[1], args[2], args[3], args[4]))

groupScaleEarlier == \E args \in GroupScaleArgs :
  HeapCall("scale", args,
           GroupScaleCallEarlier(heap, args[1], args[2], args[3], args[4]))

NextGroup == groupTranslate \/ groupScale \/ groupScaleEarlier

SpecGroup == InitGroup /\ [][NextGroup]_vars

\* quarter turns, cx, cy
GroupRotateArgs == {<<1, Undefined, Undefined>>, <<3, Num(1), Num(3)>>}

\* minX, minY, maxX, maxY
GroupCenterArgs ==
  {<<Undefined, Undefined, Undefined, Undefined>>,
   <<Num(0), Num(0), Num(24), Num(24)>>,
   <<Num(5), Num(-5), Num(1), Num(20)>>}

\* targetWidth, targetHeight, preserveAspect
GroupFitArgs ==
  {<<Undefined, Undefined, "undefined">>,
   <<Num(6), Num(4), "false">>,
   <<Num(6), Num(4), "true">>}

groupRotate == \E args \in GroupRotateArgs :
  HeapCall("rotate", args, GroupRotateCall(heap, args[1], args[2], args[3]))

groupFlipX == \E args \in FlipArgs :
  HeapCall("flipX", args, GroupFlipXCall(heap, args[1]))

groupFlipY == \E args \in FlipArgs :
  HeapCall("flipY", args, GroupFlipYCall(heap, args[1]))

groupCenter == \E args \in GroupCenterArgs :
  HeapCall("center", args,
           GroupCenterCall(heap, args[1], args[2], args[3], args[4]))

groupCenterEarlier == \E args \in GroupCenterArgs :
  HeapCall("centerEarlier", args,
           GroupCenterCallEarlier(heap, args[1], args[2], args[3], args[4]))

groupFit == \E args \in GroupFitArgs :
  HeapCall("fit", args, GroupFitCall(heap, args[1], args[2], args[3]))

\* The calls of a group that forward one transform to every Path.
NextForward ==
  groupTranslate \/ groupScale \/ groupRotate \/ groupCenter \/ groupFit

SpecForward == InitGroup /\ [][NextForward]_vars

\* The calls of a group whose omitted arguments come from its bounds.
NextDefaults == groupFlipX \/ groupFlipY \/ groupCenterEarlier \/ groupTranslate

SpecDefaults == InitGroup /\ [][NextDefaults]_vars

----------------------------------------------------------------------------
(* String arguments                                                        *)
(*                                                                         *)
(* ms, ls, qs, cs, ts, ss and as read the numbers of their call from a     *)
(* string.  A string is the sequence of its characters; the strings of the *)
(* model are made of digits, signs, the decimal point, spaces, commas and  *)
(* letters that begin no number, and no number has an exponent.            *)

WhiteSpace == {" "}

\* String.prototype.trimStart, trimEnd and trim
RECURSIVE TrimStart(_)
TrimStart(text) ==
  IF text # <<>> /\ Head(text) \in WhiteSpace THEN TrimStart(Tail(text))
  ELSE text

RECURSIVE TrimEnd(_)
TrimEnd(text) ==
  IF text # <<>> /\ text[Len(text)] \in WhiteSpace
    THEN TrimEnd(SubSeq(text, 1, Len(text) - 1))
    ELSE text

Trim(text) == TrimEnd(TrimStart(text))

\* replace(COMMA_REGEX, " ")
ReplaceCommas(text) ==
  [i \in 1..Len(text) |-> IF text[i] = "," THEN " " ELSE text[i]]

\* split: a new part begins after each separator; with runs, a run of white
\* space is one separator (SPACE_REGEX), without, each space is one (" ").
RECURSIVE SplitLoop(_, _, _, _)
SplitLoop(text, i, parts, runs) ==
  IF i > Len(text) THEN parts
  ELSE IF text[i] \notin WhiteSpace
    THEN SplitLoop(text, i + 1,
                   [parts EXCEPT ![Len(parts)] = Append(@, text[i])], runs)
  ELSE IF runs /\ i > 1 /\ text[i - 1] \in WhiteSpace
    THEN SplitLoop(text, i + 1, parts, runs)
  ELSE SplitLoop(text, i + 1, Append(parts, <<>>), runs)

SplitAtSpace(text) == SplitLoop(text, 1, <<<<>>>>, FALSE)

SplitAtSpaceRegex(text) == SplitLoop(text, 1, <<<<>>>>, TRUE)

\* The text parseFloat and parseInt make of undefined.
UndefinedText == <<"u", "n", "d", "e", "f", "i", "n", "e", "d">>

\* The k-th name of a destructuring of parts: undefined beyond the last part.
Part(parts, k) == IF k <= Len(parts) THEN parts[k] ELSE UndefinedText

\* The number of digits of the text from position i on.
RECURSIVE DigitRun(_, _)
DigitRun(text, i) ==
  IF i <= Len(text) /\ text[i] \in DigitChars THEN 1 + DigitRun(text, i + 1)
  ELSE 0

\* The length of the longest beginning of the text that is a decimal number:
\* a sign or none, digits, and a decimal point with the digits after it; 0
\* when that beginning has no digit.
NumberLength(text) ==
  LET sign == IF text # <<>> /\ text[1] \in SignChars THEN 1 ELSE 0
      whole == DigitRun(text, sign + 1)
      point == sign + whole + 1
      hasPoint == point <= Len(text) /\ text[point] = "."
      fraction == IF hasPoint THEN DigitRun(text, point + 1) ELSE 0
  IN  IF whole + fraction = 0 THEN 0
      ELSE IF hasPoint THEN point + fraction
      ELSE sign + whole

\* parseFloat: the number at the beginning of the text, whatever follows it;
\* NaN when the text begins with no number.
ParseFloat(text) ==
  LET str == TrimStart(text)
  IN  IF NumberLength(str) = 0 THEN NaN
      ELSE TokenValue(SubSeq(str, 1, NumberLength(str)))

\* parseInt(text, 10): the whole number at the beginning of the text.
ParseInt(text) ==
  LET str == TrimStart(text)
      sign == IF str # <<>> /\ str[1] \in SignChars THEN 1 ELSE 0
      whole == DigitRun(str, sign + 1)
  IN  IF whole = 0 THEN NaN ELSE TokenValue(SubSeq(str, 1, sign + whole))

\* The call has thrown at the given commands, or returned and left the given
\* commands.
Thrown(cmds) == [ok |-> FALSE, commands |-> cmds]

Returned(cmds) == [ok |-> TRUE, commands |-> cmds]

\* ms(coords)
MsCall(cmds, coords) ==
  LET parts == SplitAtSpace(Trim(coords))
      x == ParseFloat(Part(parts, 1))
      y == ParseFloat(Part(parts, 2))
  IN  IF IsNaN(x) \/ IsNaN(y) THEN Thrown(cmds)
      ELSE Returned(Append(cmds, CmdM(x, y)))

\* ls(coords)
LsCall(cmds, coords) ==
  LET parts == SplitAtSpace(Trim(coords))
      x == ParseFloat(Part(parts, 1))
      y == ParseFloat(Part(parts, 2))
  IN  IF IsNaN(x) \/ IsNaN(y) THEN Thrown(cmds)
      ELSE Returned(Append(cmds, CmdL(x, y)))

\* The parts qs, cs, ts, ss and as read.
PartsOf(text) == SplitAtSpaceRegex(ReplaceCommas(Trim(text)))

\* The parts as numbers.
FloatsOf(parts) == [k \in 1..Len(parts) |-> ParseFloat(parts[k])]

SomeNaN(numbers) == \E k \in 1..Len(numbers) : IsNaN(numbers[k])

\* qs(coords)
QsCall(cmds, coords) ==
  LET parts == PartsOf(coords)
      n == FloatsOf(parts)
  IN  IF Len(parts) # 4 THEN Thrown(cmds)
      ELSE IF SomeNaN(n) THEN Thrown(cmds)
      ELSE Returned(Append(cmds, CmdQ(n[1], n[2], n[3], n[4])))

\* cs(coords)
CsCall(cmds, coords) ==
  LET parts == PartsOf(coords)
      n == FloatsOf(parts)
  IN  IF Len(parts) # 6 THEN Thrown(cmds)
      ELSE IF SomeNaN(n) THEN Thrown(cmds)
      ELSE Returned(Append(cmds, CmdC(n[1], n[2], n[3], n[4], n[5], n[6])))

\* ts(coords)
TsCall(cmds, coords) ==
  LET parts == PartsOf(coords)
      n == FloatsOf(parts)
  IN  IF Len(parts) # 2 THEN Thrown(cmds)
      ELSE IF SomeNaN(n) THEN Thrown(cmds)
      ELSE Returned(Append(cmds, CmdT(n[1], n[2])))

\* ss(coords)
SsCall(cmds, coords) ==
  LET parts == PartsOf(coords)
      n == FloatsOf(parts)
  IN  IF Len(parts) # 4 THEN Thrown(cmds)
      ELSE IF SomeNaN(n) THEN Thrown(cmds)
      ELSE Returned(Append(cmds, CmdS(n[1], n[2], n[3], n[4])))

\* The arguments as(params) calls a(...) with: <<>> when it throws.
AsArguments(params) ==
  LET parts == PartsOf(params)
      n == FloatsOf(parts)
      largeArcFlag == ParseInt(parts[4])
      sweepFlag == ParseInt(parts[5])
  IN  IF Len(parts) # 7 THEN <<>>
      ELSE IF \/ SomeNaN(<<n[1], n[2], n[3], n[6], n[7]>>)
              \/ largeArcFlag \notin {Zero, Num(1)}
              \/ sweepFlag \notin {Zero, Num(1)}
        THEN <<>>
      ELSE <<n[1], n[2], n[3], largeArcFlag, sweepFlag, n[6], n[7]>>

\* as(params)
AsCall(cmds, params) ==
  LET args == AsArguments(params)
  IN  IF args = <<>> THEN Thrown(cmds)
      ELSE Returned(cmds \o ACall(cmds, args[1], args[2], args[3], args[4],
                                  args[5], args[6], args[7]))

\* Strings of two numbers and strings that are not.  After each, the string
\* in one piece.
StringTwo == <<"1", " ", "2">>                                   \* "1 2"
StringTwoPadded == <<" ", "1", ".", "5", " ", "-", "2", " ">>    \* " 1.5 -2 "
StringTwoComma == <<"1", ",", "2">>                              \* "1,2"
StringTwoWide == <<"1", " ", " ", "2">>                          \* "1  2"
StringThree == <<"1", " ", "2", " ", "3">>                       \* "1 2 3"
StringOne == <<"7">>                                             \* "7"
StringEmpty == <<>>                                              \* ""
StringUnit == <<"1", "p", "x", " ", "2">>                        \* "1px 2"
StringWord == <<"x", " ", "2">>                                  \* "x 2"

\* "1 2 3 4", "1,2 3,4x", "1 2 3", "1 2 y 4"
StringFour == <<"1", " ", "2", " ", "3", " ", "4">>
StringFourUnit == <<"1", ",", "2", " ", "3", ",", "4", "x">>
StringFourWord == <<"1", " ", "2", " ", "y", " ", "4">>

\* "1 2 3 4 5 6", "1 2 3 4 5 6 7"
StringSix == <<"1", " ", "2", " ", "3", " ", "4", " ", "5", " ", "6">>
StringSeven ==
  <<"1", " ", "2", " ", "3", " ", "4", " ", "5", " ", "6", " ", "7">>

\* "0 2 0 0 1 5 4", "2,2,0,0,1,5,4", "0 2 0 2 1 5 4", "0 2 0 1.5 1 5 4",
\* "0 2 0 0 1 5"
StringArc ==
  <<"0", " ", "2", " ", "0", " ", "0", " ", "1", " ", "5", " ", "4">>
StringArcCommas ==
  <<"2", ",", "2", ",", "0", ",", "0", ",", "1", ",", "5", ",", "4">>
StringArcFlagTwo ==
  <<"0", " ", "2", " ", "0", " ", "2", " ", "1", " ", "5", " ", "4">>
StringArcFlagDecimal ==
  <<"0", " ", "2", " ", "0", " ", "1", ".", "5", " ", "1", " ", "5", " ",
    "4">>
StringArcShort == <<"0", " ", "2", " ", "0", " ", "0", " ", "1", " ", "5">>

MsArgs ==
  {StringTwo, StringTwoPadded, StringTwoComma, StringTwoWide, StringThree,
   StringOne, StringEmpty, StringUnit, StringWord}

LsArgs == {StringTwo, StringThree, StringUnit, StringWord}

TsArgs == {StringTwo, StringTwoComma, StringTwoWide, StringThree, StringUnit}

QsArgs == {StringFour, StringFourUnit, StringFourWord, StringThree}

CsArgs == {StringSix, StringSeven, StringFour}

SsArgs == {StringFour, StringFourUnit, StringSix}

AsArgs ==
  {StringArc, StringArcCommas, StringArcFlagTwo, StringArcFlagDecimal,
   StringArcShort, StringSeven}

\* A string operation: the path has the commands the call has left.
StringCall(op, text, result) ==
  /\ nCalls < MaxCalls
  /\ nCalls' = nCalls + 1
  /\ commands' = result.commands
  /\ last' = [op |-> op, args |-> <<text>>, pre |-> commands,
              ok |-> result.ok]
  /\ UNCHANGED <<width, height, heap>>

ms == \E coords \in MsArgs : StringCall("ms", coords, MsCall(commands, coords))

ls == \E coords \in LsArgs : StringCall("ls", coords, LsCall(commands, coords))

qs == \E coords \in QsArgs : StringCall("qs", coords, QsCall(commands, coords))

cs == \E coords \in CsArgs : StringCall("cs", coords, CsCall(commands, coords))

ts == \E coords \in TsArgs : StringCall("ts", coords, TsCall(commands, coords))

ss == \E coords \in SsArgs : StringCall("ss", coords, SsCall(commands, coords))

\* as(params), followed on the arcs whose conversion the model computes
\* exactly.
as == \E params \in AsArgs :
  /\ AsArguments(params) # <<>> =>
       LET args == AsArguments(params)
       IN  Apply1(ArcExact,
                  Arc(GetCurrentPoint(commands).x, GetCurrentPoint(commands).y,
                      args[1], args[2], args[3], args[4], args[5], args[6],
                      args[7]))
  /\ StringCall("as", params, AsCall(commands, params))

InitStrings ==
  /\ \E list \in {<<>>, <<CmdM(Num(1), Num(2)), CmdL(Num(5), Num(4))>>} :
       /\ width = Num(24)
       /\ height = width
       /\ commands = list
  /\ last = [op |-> "new", args |-> <<>>, pre |-> <<>>, ok |-> TRUE]
  /\ nCalls = 0
  /\ heap = NoHeap

NextStrings == ms \/ ls \/ qs \/ cs \/ ts \/ ss \/ as

SpecStrings == InitStrings /\ [][NextStrings]_vars

----------------------------------------------------------------------------
(* Vocabulary of the properties *)

XFields == {"x", "x1", "x2"}

YFields == {"y", "y1", "y2"}

FullPointTypes == {"M", "L", "T", "Q", "C", "S"}

ZeroBox == [minX |-> Zero, minY |-> Zero, maxX |-> Zero, maxY |-> Zero]

FiniteBox(b) ==
  IsFinite(b.minX) /\ IsFinite(b.minY) /\ IsFinite(b.maxX) /\ IsFinite(b.maxY)

BoxWidth(b) == Sub(b.maxX, b.minX)

BoxHeight(b) == Sub(b.maxY, b.minY)

BoxMid(b) ==
  Point(Div(Add(b.minX, b.maxX), Two), Div(Add(b.minY, b.maxY), Two))

\* The values of the given fields over all commands of a list.
FieldValues(cmds, fields) ==
  {cmds[i][f] : <<i, f>> \in
     {<<j, g>> \in (1..Len(cmds)) \X fields : g \in DOMAIN cmds[j]}}

IsLeast(least, S) == least \in S /\ \A b \in S : Leq(least, b)

IsGreatest(greatest, S) == greatest \in S /\ \A b \in S : Leq(b, greatest)

SameShape(cmds, old) ==
  /\ Len(cmds) = Len(old)
  /\ \A i \in 1..Len(old) :
       cmds[i].type = old[i].type /\ DOMAIN cmds[i] = DOMAIN old[i]

\* Greatest index of a command of one of the given kinds, 0 if there is none.
LastIndex(cmds, types) ==
  LET idx == {i \in 1..Len(cmds) : cmds[i].type \in types}
  IN  IF idx = {} THEN 0 ELSE CHOOSE i \in idx : \A j \in idx : j <= i

\* The subpath start in force after the first n commands: the point of the
\* most recent Move among them, the origin if there is none.
RecentMove(cmds, n) ==
  LET k == LastIndex(SubSeq(cmds, 1, n), {"M"})
  IN  IF k = 0 THEN Point(Zero, Zero) ELSE Point(cmds[k].x, cmds[k].y)

\* The pen's coordinate on one axis, read off the last command that sets it.
PenCoord(cmds, field, skipped) ==
  LET k == LastIndex(cmds, {"M", "L", "H", "V", "Q", "C", "T", "S", "Z"} \ {skipped})
  IN  IF k = 0 THEN Zero
      ELSE IF cmds[k].type = "Z" THEN RecentMove(cmds, k)[field]
      ELSE cmds[k][field]

----------------------------------------------------------------------------
(* C1 *)

\* C1: getCurrentPoint() is the pen left by replaying the whole sequence from
\* pen (0,0) and subpath start (0,0): its x is the x of the last command other
\* than VerticalLine, its y the y of the last command other than
\* HorizontalLine, where a Close stands for the point of the most recent Move
\* before it; an empty sequence yields (0,0).
ThmC1_CurrentPointIsReplay ==
  /\ GetCurrentPoint(commands) =
       Point(PenCoord(commands, "x", "V"), PenCoord(commands, "y", "H"))
  /\ (commands = <<>> => GetCurrentPoint(commands) = Point(Zero, Zero))
  /\ (last.op = "h" =>
        GetCurrentPoint(commands) =
          Point(last.args[1], GetCurrentPoint(last.pre).y))
  /\ (last.op = "v" =>
        GetCurrentPoint(commands) =
          Point(GetCurrentPoint(last.pre).x, last.args[1]))
  /\ (last.op = "close" =>
        GetCurrentPoint(commands) = RecentMove(last.pre, Len(last.pre)))

\* A Close has just been appended after two Moves to different points.
WitC1_CloseAfterSecondMove ==
  /\ last.op = "close"
  /\ \E i, j \in 1..Len(last.pre) :
       /\ i < j
       /\ last.pre[i].type = "M"
       /\ last.pre[j].type = "M"
       /\ last.pre[i] # last.pre[j]
       /\ j = LastIndex(last.pre, {"M"})

----------------------------------------------------------------------------
(* C2, C3 *)

\* C2: getBounds() on an empty command sequence returns the zero box
\* {0, 0, 0, 0}.
CexC2_EmptyBoundsIsZeroBox ==
  commands = <<>> => GetBounds(commands) = ZeroBox

\* C3: for every non-empty sequence getBounds() returns four real numbers with
\* minX <= maxX and minY <= maxY, the least and greatest x-type field and the
\* least and greatest y-type field of the commands.
CexC3_NonEmptyBoundsIsEnvelope ==
  commands # <<>> =>
    LET b == GetBounds(commands)
        xs == FieldValues(commands, XFields)
        ys == FieldValues(commands, YFields)
    IN  /\ FiniteBox(b)
        /\ Leq(b.minX, b.maxX)
        /\ Leq(b.minY, b.maxY)
        /\ IsLeast(b.minX, xs)
        /\ IsGreatest(b.maxX, xs)
        /\ IsLeast(b.minY, ys)
        /\ IsGreatest(b.maxY, ys)

----------------------------------------------------------------------------
(* C4 *)

\* C4: a transform applies its one coordinate function f to each command: the
\* end point and every control point of M, L, T, Q, C, S are mapped by f;
\* HorizontalLine x becomes the x of f(x, 0); VerticalLine y becomes the y of
\* f(0, y); Close is unchanged; length and command kinds are preserved.
ThmC4_MapCoordsPerCommand ==
  last.fn # NoFn =>
    /\ SameShape(commands, last.pre)
    /\ \A i \in 1..Len(last.pre) :
         LET old == last.pre[i]
             new == commands[i]
         IN  /\ old.type \in FullPointTypes =>
                  /\ Point(new.x, new.y) = ApplyFn(last.fn, old.x, old.y)
                  /\ Has(old, "x1") =>
                       Point(new.x1, new.y1) = ApplyFn(last.fn, old.x1, old.y1)
                  /\ Has(old, "x2") =>
                       Point(new.x2, new.y2) = ApplyFn(last.fn, old.x2, old.y2)
             /\ old.type = "H" => new.x = ApplyFn(last.fn, old.x, Zero).x
             /\ old.type = "V" => new.y = ApplyFn(last.fn, Zero, old.y).y
             /\ old.type = "Z" => new = old

\* A rotation has remapped a list holding a single-axis command and a curve.
WitC4_RotateMixedList ==
  /\ last.op = "rotate"
  /\ \E i, j \in 1..Len(last.pre) :
       /\ last.pre[i].type \in {"H", "V"}
       /\ last.pre[j].type \in {"Q", "C", "S"}
  /\ commands # last.pre

----------------------------------------------------------------------------
(* C5 *)

\* C5: getBounds() after translate(dx, dy) is getBounds() before it with dx
\* added to minX and maxX and dy added to minY and maxY.
ThmC5_TranslateShiftsBounds ==
  last.op = "translate" =>
    LET before == GetBounds(last.pre)
        after == GetBounds(commands)
        dx == last.args[1]
        dy == last.args[2]
    IN  after = [minX |-> Add(before.minX, dx), minY |-> Add(before.minY, dy),
                 maxX |-> Add(before.maxX, dx), maxY |-> Add(before.maxY, dy)]

\* A translate has moved a list whose envelope has a positive width and height.
WitC5_TranslatedBox ==
  /\ last.op = "translate"
  /\ FiniteBox(GetBounds(last.pre))
  /\ Gt(BoxWidth(GetBounds(last.pre)), Zero)
  /\ Gt(BoxHeight(GetBounds(last.pre)), Zero)
  /\ GetBounds(commands) # GetBounds(last.pre)

----------------------------------------------------------------------------
(* C6 *)

DefaultPivot == last.args[3] = Undefined /\ last.args[4] = Undefined

\* C6: scale(sx, sy) without a pivot maps every coordinate as
\* ((x-cx)*sx+cx, (y-cy)*sy+cy) where (cx, cy) is the midpoint of the envelope
\* at the time of the call and sy defaults to sx; for a finite envelope the
\* envelope midpoint is the same before and after such a scale, and before and
\* after fit.
ThmC6_ScaleAboutEnvelopeMidpoint ==
  LET before == GetBounds(last.pre)
      mid == BoxMid(before)
  IN  /\ (last.op = "scale" /\ DefaultPivot) =>
           LET sx == last.args[1]
               sy == IF last.args[2] = Undefined THEN sx ELSE last.args[2]
           IN  /\ SameShape(commands, last.pre)
               /\ \A i \in 1..Len(last.pre) :
                    /\ \A f \in XFields \cap DOMAIN last.pre[i] :
                         commands[i][f] =
                           Add(Mul(Sub(last.pre[i][f], mid.x), sx), mid.x)
                    /\ \A f \in YFields \cap DOMAIN last.pre[i] :
                         commands[i][f] =
                           Add(Mul(Sub(last.pre[i][f], mid.y), sy), mid.y)
      /\ ((last.op = "fit" \/ (last.op = "scale" /\ DefaultPivot))
            /\ FiniteBox(before)) =>
           BoxMid(GetBounds(commands)) = mid

\* A scale without a pivot has resized a list with a positive-size envelope
\* whose midpoint is not the origin.
WitC6_ScaledAboutMidpoint ==
  /\ last.op = "scale"
  /\ DefaultPivot
  /\ FiniteBox(GetBounds(last.pre))
  /\ Gt(BoxWidth(GetBounds(last.pre)), Zero)
  /\ Gt(BoxHeight(GetBounds(last.pre)), Zero)
  /\ BoxMid(GetBounds(last.pre)) # Point(Zero, Zero)
  /\ BoxWidth(GetBounds(commands)) # BoxWidth(GetBounds(last.pre))

----------------------------------------------------------------------------
(* C7 *)

\* C7: flipX(w) replaces every x-type field v by w - v and leaves every y-type
\* field (so every VerticalLine) unchanged, w defaulting to the declared
\* width; flipY(h) replaces every y-type field v by h - v and leaves every
\* x-type field (so every HorizontalLine) unchanged, h defaulting to the
\* declared height.
ThmC7_FlipMirrorsOneAxis ==
  /\ last.op = "flipX" =>
       LET w == IF last.args[1] = Undefined THEN width ELSE last.args[1]
       IN  /\ SameShape(commands, last.pre)
           /\ \A i \in 1..Len(last.pre) :
                /\ \A f \in XFields \cap DOMAIN last.pre[i] :
                     commands[i][f] = Sub(w, last.pre[i][f])
                /\ \A f \in YFields \cap DOMAIN last.pre[i] :
                     commands[i][f] = last.pre[i][f]
  /\ last.op = "flipY" =>
       LET hh == IF last.args[1] = Undefined THEN height ELSE last.args[1]
       IN  /\ SameShape(commands, last.pre)
           /\ \A i \in 1..Len(last.pre) :
                /\ \A f \in YFields \cap DOMAIN last.pre[i] :
                     commands[i][f] = Sub(hh, last.pre[i][f])
                /\ \A f \in XFields \cap DOMAIN last.pre[i] :
                     commands[i][f] = last.pre[i][f]

\* flipX() without an argument has mirrored a list holding a VerticalLine and
\* a command with x fields, on a Path whose declared width differs from its
\* height.
WitC7_DefaultFlipX ==
  /\ last.op = "flipX"
  /\ last.args[1] = Undefined
  /\ width # height
  /\ \E i, j \in 1..Len(last.pre) :
       last.pre[i].type = "V" /\ Has(last.pre[j], "x")
  /\ commands # last.pre

----------------------------------------------------------------------------
(* C8 *)

\* C8: after center(minX, minY, maxX, maxY) on a finite envelope the envelope
\* midpoint is ((minX+maxX)/2, (minY+maxY)/2) and its width and height are
\* unchanged; omitted arguments default to (0,0)-(declared width, declared
\* height); nothing is clamped when maxX < minX or maxY < minY.
ThmC8_CenterAlignsMidpoints ==
  (last.op = "center" /\ FiniteBox(GetBounds(last.pre))) =>
    LET args == last.args
        minX == IF args[1] = Undefined THEN Zero ELSE args[1]
        minY == IF args[2] = Undefined THEN Zero ELSE args[2]
        maxX == IF args[3] = Undefined THEN width ELSE args[3]
        maxY == IF args[4] = Undefined THEN height ELSE args[4]
        before == GetBounds(last.pre)
        after == GetBounds(commands)
    IN  /\ BoxMid(after) =
             Point(Div(Add(minX, maxX), Two), Div(Add(minY, maxY), Two))
        /\ BoxWidth(after) = BoxWidth(before)
        /\ BoxHeight(after) = BoxHeight(before)

\* center has moved a list with a positive-size envelope into a target box
\* given with maxX < minX and maxY omitted.
WitC8_CenteredInReversedBox ==
  /\ last.op = "center"
  /\ last.args[3] # Undefined
  /\ last.args[4] = Undefined
  /\ Lt(last.args[3], last.args[1])
  /\ FiniteBox(GetBounds(last.pre))
  /\ Gt(BoxWidth(GetBounds(last.pre)), Zero)
  /\ commands # last.pre

----------------------------------------------------------------------------
(* C9 *)

\* C9: when the envelope has zero width or zero height, fit leaves the command
\* sequence exactly unchanged, whatever its arguments.
ThmC9_FitDegenerateIsNoOp ==
  (/\ last.op = "fit"
   /\ \/ BoxWidth(GetBounds(last.pre)) = Zero
      \/ BoxHeight(GetBounds(last.pre)) = Zero)
    => commands = last.pre

\* fit was called on a list whose envelope has zero width and positive height.
WitC9_FitOnZeroWidth ==
  /\ last.op = "fit"
  /\ FiniteBox(GetBounds(last.pre))
  /\ BoxWidth(GetBounds(last.pre)) = Zero
  /\ Gt(BoxHeight(GetBounds(last.pre)), Zero)

----------------------------------------------------------------------------
(* C10 *)

\* C10: for an envelope of positive width W and height H and positive targets
\* w, h (defaulting to the declared width and height): fit(w, h, false) yields
\* an envelope of exactly w by h; fit(w, h, true) scales both axes by
\* min(w/W, h/H), so the new envelope is at most w by h and equal to the
\* target on at least one axis.
ThmC10_FitContain ==
  LET before == GetBounds(last.pre)
      after == GetBounds(commands)
      W == BoxWidth(before)
      H == BoxHeight(before)
      w == IF last.args[1] = Undefined THEN width ELSE last.args[1]
      hh == IF last.args[2] = Undefined THEN height ELSE last.args[2]
      k == IF Lt(Div(hh, H), Div(w, W)) THEN Div(hh, H) ELSE Div(w, W)
  IN  (/\ last.op = "fit"
       /\ FiniteBox(before)
       /\ Gt(W, Zero) /\ Gt(H, Zero) /\ Gt(w, Zero) /\ Gt(hh, Zero)) =>
        IF last.args[3] = "false"
        THEN BoxWidth(after) = w /\ BoxHeight(after) = hh
        ELSE /\ BoxWidth(after) = Mul(k, W)
             /\ BoxHeight(after) = Mul(k, H)
             /\ Leq(BoxWidth(after), w)
             /\ Leq(BoxHeight(after), hh)
             /\ (BoxWidth(after) = w \/ BoxHeight(after) = hh)

\* fit with preserveAspect has resized a positive-size envelope whose aspect
\* differs from the target's, so one axis ends strictly inside the target.
WitC10_FitPreservingAspect ==
  LET after == GetBounds(commands)
  IN  /\ last.op = "fit"
      /\ last.args[3] = "true"
      /\ FiniteBox(GetBounds(last.pre))
      /\ Gt(BoxWidth(GetBounds(last.pre)), Zero)
      /\ Gt(BoxHeight(GetBounds(last.pre)), Zero)
      /\ commands # last.pre
      /\ (Lt(BoxWidth(after), last.args[1]) \/ Lt(BoxHeight(after), last.args[2]))

----------------------------------------------------------------------------
(* C11 *)

PositiveBox(b) ==
  FiniteBox(b) /\ Gt(BoxWidth(b), Zero) /\ Gt(BoxHeight(b), Zero)

\* The same fit, preserving the aspect, has been called twice in a row on a
\* list whose envelope had a positive size.
FitTwice ==
  /\ last.op = "fit"
  /\ last.before.op = "fit"
  /\ last.before.args = last.args
  /\ last.args[3] # "false"
  /\ PositiveBox(GetBounds(last.before.pre))

\* C11 (as claimed): for a positive-size envelope and any arguments w, h,
\* fit(w, h, true) applied twice yields the same command sequence as applied
\* once.
CexC11_FitIdempotentAnyTarget ==
  FitTwice => commands = last.pre

\* C11 (amended): for a positive-size envelope and any targets w >= 0 and
\* h >= 0 (omitted ones being the declared width and height), fit(w, h, true)
\* applied twice yields the same command sequence as applied once.
ThmC11_FitIdempotentNonNegativeTarget ==
  LET w == IF last.args[1] = Undefined THEN width ELSE last.args[1]
      hh == IF last.args[2] = Undefined THEN height ELSE last.args[2]
  IN  (FitTwice /\ Leq(Zero, w) /\ Leq(Zero, hh)) => commands = last.pre

\* The second of two equal fits with positive targets has run, the first one
\* having resized the list.
WitC11_SecondFitAfterResize ==
  /\ FitTwice
  /\ last.args[1] # Undefined
  /\ Gt(last.args[1], Zero)
  /\ Gt(last.args[2], Zero)
  /\ last.pre # last.before.pre
  /\ last.fn # NoFn

----------------------------------------------------------------------------
(* C12, C13, C14 *)

\* The pen position at the time of the last call.
PenBefore == GetCurrentPoint(last.pre)

\* The arcToCubic call the last a(...) has made.
LastArc ==
  Arc(PenBefore.x, PenBefore.y, last.args[1], last.args[2], last.args[3],
      last.args[4], last.args[5], last.args[6], last.args[7])

ArcFromPenToPen ==
  /\ last.op = "a"
  /\ PenBefore = Point(last.args[6], last.args[7])

\* C12: arcToCubic returns the empty list whenever its start point equals its
\* end point, whatever the radii (zero included), the rotation and the flags,
\* so a(...) whose end point is the pen position appends nothing.
ThmC12_ArcToSamePointIsEmpty ==
  ArcFromPenToPen => (ArcToCubic(LastArc) = <<>> /\ commands = last.pre)

\* a(...) with a zero radius and a(...) with two positive radii have both been
\* called with the pen position as their end point.
WitC12_ZeroRadiusArcToPen ==
  /\ ArcFromPenToPen
  /\ last.args[1] = Zero
  /\ last.before.op = "a"
  /\ Gt(last.before.args[1], Zero) /\ Gt(last.before.args[2], Zero)
  /\ last.before.pre = last.pre
  /\ last.pre # <<>>

ZeroRadiusArc ==
  /\ last.op = "a"
  /\ PenBefore # Point(last.args[6], last.args[7])
  /\ last.args[1] = Zero \/ last.args[2] = Zero

\* C13: when the end points differ and rx = 0 or ry = 0, the conversion is
\* exactly one cubic curve whose first control point is the start point and
\* whose second control point and end point are both the end point.
ThmC13_ZeroRadiusIsStraightCurve ==
  ZeroRadiusArc =>
    /\ Len(ArcToCubic(LastArc)) = 1
    /\ commands = Append(last.pre,
                         CmdC(PenBefore.x, PenBefore.y,
                              last.args[6], last.args[7],
                              last.args[6], last.args[7]))

\* A zero-radius arc has been drawn from a pen position that is neither the
\* origin nor the end point.
WitC13_StraightCurveFromPen ==
  /\ ZeroRadiusArc
  /\ PenBefore # Point(Zero, Zero)
  /\ Len(commands) = Len(last.pre) + 1

\* The fields of each kind of command.
FieldsOf(type) ==
  CASE type \in {"M", "L", "T"} -> {"type", "x", "y"}
    [] type = "H" -> {"type", "x"}
    [] type = "V" -> {"type", "y"}
    [] type = "Q" -> {"type", "x1", "y1", "x", "y"}
    [] type = "C" -> {"type", "x1", "y1", "x2", "y2", "x", "y"}
    [] type = "S" -> {"type", "x2", "y2", "x", "y"}
    [] type = "Z" -> {"type"}

IsPathCommand(cmd) ==
  /\ "type" \in DOMAIN cmd
  /\ cmd.type \in {"M", "L", "H", "V", "Q", "C", "T", "S", "Z"}
  /\ DOMAIN cmd = FieldsOf(cmd.type)

\* The commands the last call has appended.
Appended == SubSeq(commands, Len(last.pre) + 1, Len(commands))

\* C14: after any builder operations and transforms every stored command is
\* one of the nine kinds M, L, H, V, Q, C, T, S, Z; a(...) leaves the commands
\* it found in place and appends after them zero or more C commands, none
\* exactly when its end point is the pen position of the time of the call,
\* and otherwise curves that end at its end point.
ThmC14_OnlyNineKindsArcsAsCurves ==
  /\ \A i \in 1..Len(commands) : IsPathCommand(commands[i])
  /\ last.op = "a" =>
       /\ Len(commands) >= Len(last.pre)
       /\ SubSeq(commands, 1, Len(last.pre)) = last.pre
       /\ \A i \in 1..Len(Appended) : Appended[i].type = "C"
       /\ Appended = <<>> <=> PenBefore = Point(last.args[6], last.args[7])
       /\ Appended # <<>> =>
            Point(Appended[Len(Appended)].x, Appended[Len(Appended)].y) =
              Point(last.args[6], last.args[7])

\* An elliptical arc of three curves has been appended after a rectangle that
\* was moved.
WitC14_ThreeCurvesAfterShapes ==
  /\ last.op = "a"
  /\ Len(Appended) = 3
  /\ last.pre # <<>>
  /\ \E i \in 1..Len(last.pre) : last.pre[i].type = "Q"

----------------------------------------------------------------------------
(* C15, C16, C17 *)

\* The last call was parsePathData of the given text.
ParsedText(text) == last.op = "parsePathData" /\ last.args = <<text>>

\* Every coordinate of every command is a finite number.
AllFinite(cmds) ==
  \A i \in 1..Len(cmds) :
    \A f \in DOMAIN cmds[i] \ {"type"} : IsFinite(cmds[i][f])

ThmC17_MalformedTextFails ==
  last.op = "parsePathData" /\ last.args[1] \in MalformedTexts =>
    /\ last.out = ParseError
    /\ DOMAIN last.out = {"ok"}
    /\ commands = last.pre

\* A text whose first command is complete and whose curve is one number
\* short has been refused.
WitC17_ShortCurveRefused ==
  /\ ParsedText(TextShortCurve)
  /\ Scan(TextShortCurve).cmds = <<CmdM(Num(1), Num(2))>>
  /\ ~last.out.ok

----------------------------------------------------------------------------
(* C18, C19 *)

\* The last call appended to a Path or transformed it.
ChangedOnePath == last.op \in {"l", "translate"}

\* The Path the last call was made on.
Target == last.args[1]

\* The Path reports the commands it reported before the last call.
SameCommands(p) == CommandsOf(heap, p) = CommandsOf(last.pre, p)

\* C18: clone() returns a new Path with the same width and height and an
\* equal command sequence, and after it an append or a transform on either
\* of the two leaves the commands of the other as they were.
ThmC18_CloneIsIndependent ==
  /\ last.op = "clone" =>
       LET copy == heap.paths[Len(heap.paths)]
           original == last.pre.paths[Target]
       IN  /\ Len(heap.paths) = Len(last.pre.paths) + 1
           /\ copy.width = original.width
           /\ copy.height = original.height
           /\ CommandsOf(heap, Len(heap.paths)) = CommandsOf(last.pre, Target)
           /\ \A p \in 1..Len(last.pre.paths) : heap.paths[p] = last.pre.paths[p]
  /\ ChangedOnePath =>
       \A pair \in last.pre.cloned :
         /\ Target = pair[1] => SameCommands(pair[2])
         /\ Target = pair[2] => SameCommands(pair[1])

\* A line has been appended to a clone, which now has one command more than
\* its original.
WitC18_CloneGrownAlone ==
  /\ last.op = "l"
  /\ \E pair \in heap.cloned :
       /\ Target = pair[2]
       /\ Len(CommandsOf(heap, pair[2])) = Len(CommandsOf(heap, pair[1])) + 1
       /\ CommandsOf(heap, pair[1]) # <<>>

\* C19: the command sequence of a Path is its own: after any constructor
\* (one given an initial list included), merge and clone, an append or a
\* transform on one Path changes neither the commands any other Path reports
\* nor a list the caller passed to a constructor.
CexC19_CommandsExclusivelyOwned ==
  ChangedOnePath =>
    /\ \A p \in 1..Len(last.pre.paths) : p # Target => SameCommands(p)
    /\ \A list \in last.pre.given : heap.lists[list] = last.pre.lists[list]

----------------------------------------------------------------------------
(* C20 *)

\* The values of the given fields over the commands of all Paths of the
\* group.
GroupValues(hp, fields) ==
  UNION {FieldValues(CommandsOf(hp, Members(hp)[i]), fields) :
           i \in 1..Len(Members(hp))}

\* The midpoint between the least and the greatest of a set of numbers.
MidOf(S) ==
  Div(Add(CHOOSE least \in S : IsLeast(least, S),
          CHOOSE greatest \in S : IsGreatest(greatest, S)), Two)

\* The midpoint of the envelope of the commands.
EnvelopeMid(cmds) ==
  Point(MidOf(FieldValues(cmds, XFields)), MidOf(FieldValues(cmds, YFields)))

\* The midpoint of the combined envelope of the group.
GroupMid(hp) ==
  Point(MidOf(GroupValues(hp, XFields)), MidOf(GroupValues(hp, YFields)))

\* The commands have coordinates on both axes, all of them finite.
HasEnvelope(cmds) ==
  /\ FieldValues(cmds, XFields) # {}
  /\ FieldValues(cmds, YFields) # {}
  /\ AllFinite(cmds)

\* The last call was scale(sx, sy) without a pivot on a group whose Paths
\* have a combined envelope.
GroupScaledAboutMid ==
  /\ last.op = "scale"
  /\ DefaultPivot
  /\ GroupValues(last.pre, XFields) # {}
  /\ GroupValues(last.pre, YFields) # {}
  /\ \A i \in 1..Len(Members(last.pre)) :
       AllFinite(CommandsOf(last.pre, Members(last.pre)[i]))

\* C20: PathGroup.scale(sx, sy) without a pivot takes one pivot, the midpoint
\* of the combined envelope of the group before any Path changes, and scales
\* every Path with the same factors about it: the offset of the midpoint of
\* each Path's envelope from the group's midpoint is multiplied by exactly
\* (sx, sy), and the midpoint of the group stays where it was.
ThmC20_GroupScaleOnePivot ==
  GroupScaledAboutMid =>
    LET pivot == GroupMid(last.pre)
        sx == last.args[1]
        sy == OrElse(last.args[2], sx)
    IN  /\ Members(heap) = Members(last.pre)
        /\ \A i \in 1..Len(Members(heap)) :
             LET p == Members(heap)[i]
                 old == CommandsOf(last.pre, p)
                 new == CommandsOf(heap, p)
             IN  /\ new = MapCoords(old, ScaleFn(sx, sy, pivot.x, pivot.y))
                 /\ HasEnvelope(old) =>
                      /\ Sub(EnvelopeMid(new).x, pivot.x)
                           = Mul(Sub(EnvelopeMid(old).x, pivot.x), sx)
                      /\ Sub(EnvelopeMid(new).y, pivot.y)
                           = Mul(Sub(EnvelopeMid(old).y, pivot.y), sy)
        /\ GroupMid(heap) = pivot

\* A group of three Paths has been scaled by (-1, 2) without a pivot, and a
\* Path whose midpoint is not the group's has moved.
WitC20_ThreePathsMirrored ==
  /\ GroupScaledAboutMid
  /\ last.args[1] = Num(-1)
  /\ Len(Members(heap)) = 3
  /\ \E i \in 1..3 :
       /\ HasEnvelope(CommandsOf(heap, i))
       /\ EnvelopeMid(CommandsOf(last.pre, i)).x # GroupMid(last.pre).x
       /\ EnvelopeMid(CommandsOf(heap, i)) # EnvelopeMid(CommandsOf(last.pre, i))

----------------------------------------------------------------------------
(* C21, C22 *)

\* The least and the greatest of the x and of the y coordinates of the
\* commands of all Paths of the group.
GroupEnvelope(hp) ==
  LET xs == GroupValues(hp, XFields)
      ys == GroupValues(hp, YFields)
  IN  [minX |-> CHOOSE least \in xs : IsLeast(least, xs),
       minY |-> CHOOSE least \in ys : IsLeast(least, ys),
       maxX |-> CHOOSE greatest \in xs : IsGreatest(greatest, xs),
       maxY |-> CHOOSE greatest \in ys : IsGreatest(greatest, ys)]

\* C21: PathGroup.getBounds() returns {0, 0, 0, 0} for a group without
\* Paths, and for any other group the smallest rectangle that encloses the
\* envelope of every Path: the least of their minX and minY and the greatest
\* of their maxX and maxY, which are those of all their commands together.
CexC21_GroupBoundsIsEnvelope ==
  LET bounds == GroupGetBounds(heap)
  IN  IF Members(heap) = <<>> THEN bounds = ZeroBox
      ELSE /\ FiniteBox(bounds)
           /\ Leq(bounds.minX, bounds.maxX)
           /\ Leq(bounds.minY, bounds.maxY)
           /\ bounds = GroupEnvelope(heap)

\* The last call was a flip of the group without its argument.
DefaultFlip(op) == last.op = op /\ last.args = <<Undefined>>

\* Every Path of the group has the commands the coordinate function makes
\* of those it had before the last call.
EachPathMapped(fn) ==
  /\ Members(heap) = Members(last.pre)
  /\ \A i \in 1..Len(Members(heap)) :
       CommandsOf(heap, Members(heap)[i])
         = MapCoords(CommandsOf(last.pre, Members(heap)[i]), fn)

\* C22: flipX() and flipY() of a group without an argument flip every Path
\* within the declared design space of the group: x becomes the declared
\* width of the group minus x, y the declared height of the group minus y.
CexC22_GroupFlipInDesignSpace ==
  /\ DefaultFlip("flipX") => EachPathMapped(FlipXFn(last.pre.group.width))
  /\ DefaultFlip("flipY") => EachPathMapped(FlipYFn(last.pre.group.height))

----------------------------------------------------------------------------
(* C30 *)

\* C30: in the earlier text of the class, center() without arguments moves
\* every Path by the same offset so that the combined envelope of the group
\* has minX = 0 and minY = 0 afterwards, its width and height being what they
\* were.
CexC30_EarlierCenterToOrigin ==
  (/\ last.op = "centerEarlier"
   /\ last.args = <<Undefined, Undefined, Undefined, Undefined>>
   /\ FiniteBox(GroupGetBounds(last.pre))) =>
    LET before == GroupGetBounds(last.pre)
        after == GroupGetBounds(heap)
    IN  /\ \E dx, dy \in {Neg(before.minX), Neg(before.minY)} :
             EachPathMapped(TranslateFn(dx, dy))
        /\ after.minX = Zero
        /\ after.minY = Zero
        /\ BoxWidth(after) = BoxWidth(before)
        /\ BoxHeight(after) = BoxHeight(before)

----------------------------------------------------------------------------
(* C23 *)

\* The commands of Path.merge of the Paths of the group: those of its Paths,
\* one Path after the other.
MergedCommands(hp) ==
  CommandsOf(MergeCall(hp, Members(hp), Undefined, Undefined), Len(hp.paths) + 1)

\* The coordinate function of the last call, made on a Path with the given
\* commands and the constructor's default width and height.
OnOnePath(cmds) ==
  CASE last.op = "translate" -> TranslateCall(last.args[1], last.args[2])
    [] last.op = "scale" ->
         ScaleCall(cmds, last.args[1], last.args[2], last.args[3], last.args[4])
    [] last.op = "rotate" -> RotateCall(last.args[1], last.args[2], last.args[3])
    [] last.op = "center" ->
         CenterCall(cmds, Num(24), Num(24), last.args[1], last.args[2],
                    last.args[3], last.args[4])
    [] last.op = "fit" ->
         FitCall(cmds, Num(24), Num(24), last.args[1], last.args[2], last.args[3])

\* The last call was one of the forwarding calls; a center or a fit had all
\* of its arguments.
ForwardedCall ==
  /\ last.op \in {"translate", "scale", "rotate", "center", "fit"}
  /\ last.op = "center" => \A i \in 1..4 : last.args[i] # Undefined
  /\ last.op = "fit" =>
       /\ last.args[1] # Undefined
       /\ last.args[2] # Undefined
       /\ last.args[3] # "undefined"

\* C23: a group of distinct Paths is transformed as one merged shape: after
\* translate, scale, rotate, center or fit on the group, the commands of its
\* Paths one after the other are those of Path.merge of the Paths followed by
\* the same call on the merged Path; the group has the Paths it had, and each
\* Path the number and the kinds of commands and the width and height it
\* had.
ThmC23_GroupAsMergedShape ==
  ForwardedCall =>
    /\ MergedCommands(heap)
         = Remap(MergedCommands(last.pre), OnOnePath(MergedCommands(last.pre)))
    /\ Members(heap) = Members(last.pre)
    /\ \A i \in 1..Len(Members(heap)) :
         LET p == Members(heap)[i]
         IN  /\ SameShape(CommandsOf(heap, p), CommandsOf(last.pre, p))
             /\ heap.paths[p].width = last.pre.paths[p].width
             /\ heap.paths[p].height = last.pre.paths[p].height

\* A group of three Paths has been centred in a box it was not centred in,
\* after another call.
WitC23_ThreePathsCentred ==
  /\ ForwardedCall
  /\ last.op = "center"
  /\ last.pre.lists # heap.lists
  /\ Len(Members(heap)) = 3
  /\ nCalls = 2
  /\ MergedCommands(heap) # MergedCommands(last.pre)

----------------------------------------------------------------------------
(* C24 *)

\* A corner whose radii are at most half of the sides of the rectangle.
ClampedCorner(given, config) ==
  IF given.kind \in {"rounded", "chamfer"}
    THEN [given EXCEPT !.rx = MathMin(@, Div(config.width, Two)),
                        !.ry = MathMin(@, Div(config.height, Two))]
    ELSE given

\* The configuration with each corner it names clamped.
ClampedCorners(config) ==
  [config EXCEPT !.tl = ClampedCorner(@, config),
                 !.tr = ClampedCorner(@, config),
                 !.br = ClampedCorner(@, config),
                 !.bl = ClampedCorner(@, config)]

\* Every coordinate of the commands lies in the rectangle of the
\* configuration.
InRect(cmds, config) ==
  \A i \in 1..Len(cmds) :
    /\ \A j \in 1..Len(XsOf(cmds[i])) :
         /\ Leq(config.x, XsOf(cmds[i])[j])
         /\ Leq(XsOf(cmds[i])[j], Add(config.x, config.width))
    /\ \A j \in 1..Len(YsOf(cmds[i])) :
         /\ Leq(config.y, YsOf(cmds[i])[j])
         /\ Leq(YsOf(cmds[i])[j], Add(config.y, config.height))

\* The number of commands of a kind.
CountOf(cmds, type) == Cardinality({i \in 1..Len(cmds) : cmds[i].type = type})

\* The last call was rect on a configuration without a negative side or
\* radius.
RectOfNonNegatives ==
  /\ last.op = "rect"
  /\ LET config == last.args[1]
     IN  /\ Leq(Zero, config.width) /\ Leq(Zero, config.height)
         /\ \A r \in {config.rx, config.ry} : r = Undefined \/ Leq(Zero, r)
         /\ \A given \in {config.tl, config.tr, config.br, config.bl} :
              given.kind \in {"rounded", "chamfer"} =>
                Leq(Zero, given.rx) /\ Leq(Zero, given.ry)

\* C24: rect(config) clamps every corner radius it uses, the rx/ry of the
\* configuration and those of a corner alike, to half of the width (rx) and
\* half of the height (ry); with no negative width, height or radius every
\* coordinate it appends lies in [x, x+width] x [y, y+height], and what it
\* appends starts with the one Move and ends with the one Close.
CexC24_RectClampsEveryRadius ==
  RectOfNonNegatives =>
    /\ Appended = RectCall(ClampedCorners(last.args[1]))
    /\ InRect(Appended, last.args[1])
    /\ Appended[1].type = "M" /\ CountOf(Appended, "M") = 1
    /\ Appended[Len(Appended)].type = "Z" /\ CountOf(Appended, "Z") = 1

----------------------------------------------------------------------------
(* C25 *)

\* The values of a string: what its separators, spaces and commas, leave
\* between them.
ValuesIn(text) ==
  SelectSeq(SplitLoop([i \in 1..Len(text) |->
                         IF text[i] \in Separators THEN " " ELSE text[i]],
                      1, <<<<>>>>, TRUE),
            LAMBDA part : part # <<>>)

\* The number of values each string operation takes.
ValuesTaken(op) ==
  CASE op \in {"ms", "ls", "ts"} -> 2
    [] op \in {"qs", "ss"} -> 4
    [] op = "cs" -> 6
    [] op = "as" -> 7

\* The value is a number from its first character to its last.
IsNumeric(value) == value # <<>> /\ NumberLength(value) = Len(value)

\* The string of the last call has the values of its operation, each one a
\* number and each flag of an arc 0 or 1.
StringWellFormed ==
  LET values == ValuesIn(last.args[1])
  IN  /\ Len(values) = ValuesTaken(last.op)
      /\ \A k \in 1..Len(values) : IsNumeric(values[k])
      /\ last.op = "as" => \A k \in {4, 5} : values[k] \in {<<"0">>, <<"1">>}

\* C25: each string operation (ms, ls, qs, cs, ts, ss, as) fails whenever its
\* string does not hold exactly the 2, 2, 4, 6, 2, 4, 7 values of the
\* operation, or a value is not a number, or a flag of as is not 0 or 1; a
\* call that fails appends nothing and leaves the commands as they were.
CexC25_StringOperationsValidate ==
  last.op \in {"ms", "ls", "qs", "cs", "ts", "ss", "as"} =>
    /\ ~StringWellFormed => ~last.ok
    /\ ~last.ok => commands = last.pre

----------------------------------------------------------------------------
(* C26 *)

\* The kind of command each single append operation appends.
KindAppended(op) ==
  CASE op = "m" -> "M" [] op = "l" -> "L" [] op = "h" -> "H"
    [] op = "v" -> "V" [] op = "q" -> "Q" [] op = "c" -> "C"
    [] op = "t" -> "T" [] op = "s" -> "S" [] op = "close" -> "Z"

SingleAppends == {"m", "l", "h", "v", "q", "c", "t", "s", "close"}

\* The kinds of the commands, in order.
KindsOf(cmds) == [i \in 1..Len(cmds) |-> cmds[i].type]

\* The commands after the step are those before it and more at the end.
GrowsAtEnd ==
  /\ Len(commands') >= Len(commands)
  /\ SubSeq(commands', 1, Len(commands)) = commands

\* What a step of a Path does to its commands, width and height.
AppendOrRemap ==
  /\ GrowsAtEnd \/ SameShape(commands', commands)
  /\ last'.op \in SingleAppends =>
       /\ GrowsAtEnd
       /\ Len(commands') = Len(commands) + 1
       /\ commands'[Len(commands')].type = KindAppended(last'.op)
  /\ last'.op \in {"ellipse", "circle"} =>
       /\ GrowsAtEnd
       /\ KindsOf(SubSeq(commands', Len(commands) + 1, Len(commands')))
            = <<"M", "C", "C", "C", "C", "Z">>
  /\ width' = width
  /\ height' = height

\* A Path constructed without a height is as high as it is wide.
HeightDefaultsToWidth ==
  (last.op = "new" /\ last.args[2] = Undefined) => height = width

\* C26: the commands change only by an append or by a remap of the whole
\* list: each of m, l, h, v, q, c, t, s, close appends exactly one command
\* at the end and leaves the earlier commands as they were; ellipse and
\* circle append exactly M, C, C, C, C, Z; no append, transform, center or
\* fit changes the width or the height of the Path, and the height is the
\* width when the Path was constructed without a height.
ThmC26_AppendOrRemapOnly ==
  []HeightDefaultsToWidth /\ [][AppendOrRemap]_vars

\* An ellipse has been appended, after a fit, to a Path constructed with the
\* width 8 and no height.
WitC26_EllipseAfterFit ==
  /\ last.op = "ellipse"
  /\ last.before.op = "fit"
  /\ last.before.pre # last.pre
  /\ width = Num(8) /\ height = Num(8)
  /\ Len(commands) = Len(last.pre) + 6

----------------------------------------------------------------------------
(* C27 *)

\* The last call was a(...) of an arc with distinct end points and two radii
\* that are not zero.
ArcNotDegenerate ==
  /\ last.op = "a"
  /\ PenBefore # Point(last.args[6], last.args[7])
  /\ last.args[1] # Zero /\ last.args[2] # Zero

\* The point of the ellipse of a plan at an angle, and the derivative there.
EllipsePoint(P, deg) ==
  Point(Sub(Add(P.cx, Mul(P.rx, Mul(P.cosPhi, CosDeg(deg)))),
            Mul(P.ry, Mul(P.sinPhi, SinDeg(deg)))),
        Add(Add(P.cy, Mul(P.rx, Mul(P.sinPhi, CosDeg(deg)))),
            Mul(P.ry, Mul(P.cosPhi, SinDeg(deg)))))

EllipseDerivative(P, deg) ==
  Point(Sub(Mul(Mul(Neg(P.rx), P.cosPhi), SinDeg(deg)),
            Mul(Mul(P.ry, P.sinPhi), CosDeg(deg))),
        Add(Mul(Mul(Neg(P.rx), P.sinPhi), SinDeg(deg)),
            Mul(Mul(P.ry, P.cosPhi), CosDeg(deg))))

\* The curve leaves the point of the ellipse at the angle from, along the
\* derivative there, and ends at the point of the ellipse at the angle to.
SpansAngles(curve, P, from, to) ==
  LET start == EllipsePoint(P, from)
      along == EllipseDerivative(P, from)
      alpha == Mul(Frac(4, 3), TanQuarterOf(to - from))
  IN  /\ Point(curve.x1, curve.y1)
           = Point(Add(start.x, Mul(alpha, along.x)),
                   Add(start.y, Mul(alpha, along.y)))
      /\ Point(curve.x, curve.y) = EllipsePoint(P, to)

----------------------------------------------------------------------------
(* C28, C29 *)

\* The list the last call found begins with a Move.
MoveFirst == last.pre # <<>> /\ last.pre[1].type = "M"

\* The last call was translate(dx, dy), scale(sx, sy, cx, cy), flipX(w) or
\* flipY(h) with every argument given.
MapWithArguments ==
  /\ last.op \in {"translate", "scale", "flipX", "flipY"}
  /\ \A i \in 1..Len(last.args) : last.args[i] # Undefined

\* The coordinate map of that call, applied to a point.
MapOfCall(pt) ==
  CASE last.op = "translate" ->
         Point(Add(pt.x, last.args[1]), Add(pt.y, last.args[2]))
    [] last.op = "scale" ->
         Point(Add(Mul(Sub(pt.x, last.args[3]), last.args[1]), last.args[3]),
               Add(Mul(Sub(pt.y, last.args[4]), last.args[2]), last.args[4]))
    [] last.op = "flipX" -> Point(Sub(last.args[1], pt.x), pt.y)
    [] last.op = "flipY" -> Point(pt.x, Sub(last.args[1], pt.y))

\* C28: for a list that begins with a Move and each of translate(dx, dy),
\* scale(sx, sy, cx, cy), flipX(w) and flipY(h) with coordinate map f,
\* getCurrentPoint() after the call is f of getCurrentPoint() before it,
\* HorizontalLine, VerticalLine and Close commands in the list included.
ThmC28_PenFollowsTheMap ==
  (MapWithArguments /\ MoveFirst) =>
    GetCurrentPoint(commands) = MapOfCall(GetCurrentPoint(last.pre))

\* A list with HorizontalLine, VerticalLine and Close commands that ends
\* with a HorizontalLine has been scaled about a given pivot.
WitC28_ScaledAfterHorizontalLine ==
  /\ MapWithArguments /\ MoveFirst
  /\ last.op = "scale"
  /\ last.before.op = "h"
  /\ \A kind \in {"H", "V", "Z"} :
       \E i \in 1..Len(last.pre) : last.pre[i].type = kind
  /\ GetCurrentPoint(commands) # GetCurrentPoint(last.pre)

\* The point turned by a number of quarter turns about (cx, cy).
Turned(pt, quarters, cx, cy) ==
  Point(Add(cx, Sub(Mul(Sub(pt.x, cx), Cos(quarters)),
                    Mul(Sub(pt.y, cy), Sin(quarters)))),
        Add(cy, Add(Mul(Sub(pt.x, cx), Sin(quarters)),
                    Mul(Sub(pt.y, cy), Cos(quarters)))))

\* C29: for a list that begins with a Move, getCurrentPoint() after
\* rotate(angle, cx, cy) is getCurrentPoint() before it turned by the angle
\* about (cx, cy), the pivot being the origin when it is omitted;
\* HorizontalLine and VerticalLine commands in the list included.
CexC29_PenFollowsTheRotation ==
  (last.op = "rotate" /\ MoveFirst) =>
    GetCurrentPoint(commands)
      = Turned(GetCurrentPoint(last.pre), last.args[1],
               OrElse(last.args[2], Zero), OrElse(last.args[3], Zero))

====
